---- MODULE Spec2Model ----
(***************************************************************************)
(* Multi-major credit analysis (src/simulation.py): requirement lookups,   *)
(* deficit arithmetic, feasibility classification, ranking and the         *)
(* semester planner.                                                       *)
(*                                                                         *)
(* TLC strings are ASCII, so the Korean literals of the source are written *)
(* as follows:                                                             *)
(*   program types   "DoubleMajor" (boksu-jeongong), "Minor" (bu-jeongong),*)
(*                   "ConvMajor" (yunghap-jeongong), "ConvMinor"           *)
(*                   (yunghap-bujeongong), "LinkedMajor" (yeongye-jeongong),*)
(*                   "MicroDegree" (a type outside PROGRAM_PRIORITY)       *)
(*   admission types "Freshman" (sin-iphak), "TransferSame",               *)
(*                   "TransferDiff" (3rd-year transfer, same/other field)  *)
(*   student types   "NewApplicant", "CurrentParticipant"                  *)
(*   statuses        "Possible" (ganeung), "AtRisk" (wiheom),              *)
(*                   "Infeasible" (eoryeoum)                               *)
(* A major name is a sequence of tokens: "Jeongong" is the noun 'major',   *)
(* "PCam" and "PTaek" the two campus suffixes, "P5yr" the parenthesised    *)
(* suffix '(5-year)', "Sp" a blank.                                        *)
(***************************************************************************)
EXTENDS Integers, Sequences, FiniteSets, TLC

VARIABLES pc, student, pr_df, gr_df, query, pr_req, gr_req,
          args, ret, prev, output, analysis, plan_state

vars == <<pc, student, pr_df, gr_df, query, pr_req, gr_req,
          args, ret, prev, output, analysis, plan_state>>

(***************************************************************************)
(* Constants of the program                                                *)
(***************************************************************************)
MAX_CREDITS_PER_SEMESTER == 18
FRESHMAN_TOTAL_SEMESTERS == 8
TRANSFER_TOTAL_SEMESTERS == 4
MAX_DOUBLE_MAJOR_CREDITS == 130
DEFAULT_GRADUATION_CREDITS == 120

PROGRAM_PRIORITY ==
    [p \in {"DoubleMajor", "ConvMajor", "Minor", "ConvMinor", "LinkedMajor"} |->
        CASE p = "DoubleMajor" -> 1
          [] p = "ConvMajor"   -> 2
          [] p = "Minor"       -> 3
          [] p = "ConvMinor"   -> 4
          [] p = "LinkedMajor" -> 5]

Max(a, b) == IF a >= b THEN a ELSE b
Min(a, b) == IF a <= b THEN a ELSE b
Abs(a) == IF a >= 0 THEN a ELSE 0 - a

(***************************************************************************)
(* Optional values: a spreadsheet cell is <<v>> or NaN; a lookup returns a *)
(* record or None.                                                         *)
(***************************************************************************)
NaN == << >>
None == [none |-> TRUE]
IsNone(r) == "none" \in DOMAIN r

\* safe_int: NaN gives the default, anything else its integer value
safe_int(value, default) == IF value = NaN THEN default ELSE value[1]

(***************************************************************************)
(* Major names                                                             *)
(***************************************************************************)
BizMajor      == <<"Biz", "Jeongong">>
BizMajorPCam  == <<"Biz", "Jeongong", "PCam">>
BizSpMajor    == <<"Biz", "Sp", "Jeongong">>
GlobBizMajor  == <<"Glob", "Biz", "Jeongong">>
LawMajor      == <<"Law", "Jeongong">>
EconMajor     == <<"Econ", "Jeongong">>
OnlyMajor     == <<"Jeongong">>
Arch5Major    == <<"Arch", "Jeongong", "P5yr">>

\* str.replace(tok, ''): every occurrence of the token is removed
RECURSIVE Remove(_, _)
Remove(s, tok) ==
    IF s = << >> THEN << >>
    ELSE IF Head(s) = tok THEN Remove(Tail(s), tok)
         ELSE <<Head(s)>> \o Remove(Tail(s), tok)

\* str.strip(): leading and trailing blanks are removed
RECURSIVE LStrip(_)
LStrip(s) == IF s # << >> /\ Head(s) = "Sp" THEN LStrip(Tail(s)) ELSE s

RECURSIVE RStrip(_)
RStrip(s) ==
    IF s # << >> /\ s[Len(s)] = "Sp" THEN RStrip(SubSeq(s, 1, Len(s) - 1)) ELSE s

Strip(s) == RStrip(LStrip(s))

\* major.replace('jeongong','').replace('(pyeongcam)','').replace('(pyeongtaek)','').strip()
Keyword(major) == Strip(Remove(Remove(Remove(major, "Jeongong"), "PCam"), "PTaek"))

\* str.contains takes the keyword as a regular expression: a parenthesised
\* suffix left in the keyword is a group, which matches the text inside the
\* parentheses ("T5yr"), not the parentheses themselves.
RegexLiteral(keyword) ==
    [i \in 1..Len(keyword) |-> IF keyword[i] = "P5yr" THEN "T5yr" ELSE keyword[i]]

Contains(name, keyword) ==
    \E i \in 0..(Len(name) - Len(keyword)) :
        SubSeq(name, i + 1, i + Len(keyword)) = RegexLiteral(keyword)

(***************************************************************************)
(* Requirement tables (data frames): sequences of rows, in file order      *)
(***************************************************************************)
\* df[mask], the rows that satisfy the mask with their order kept, is
\* SelectSeq(df, mask).

\* A choice of year that takes the first matching row's, whatever its distance
FirstRowYear(rows, admission_year) == rows[1].year

\* min(result['year'].unique(), key=lambda x: abs(x - admission_year)):
\* the first year, in order of appearance, at minimum distance
ClosestYear(rows, admission_year) ==
    LET i == CHOOSE k \in 1..Len(rows) :
                 /\ \A j \in 1..Len(rows) :
                        Abs(rows[j].year - admission_year) >= Abs(rows[k].year - admission_year)
                 /\ \A j \in 1..(k - 1) :
                        Abs(rows[j].year - admission_year) > Abs(rows[k].year - admission_year)
    IN rows[i].year

\* safe_get_multi_pattern: the value of the first non-NaN cell among the
\* spellings tried, else the default. The result is optional, <<v>> or NaN,
\* because the default of the general-education columns is None.
RECURSIVE safe_get_multi_pattern(_, _)
safe_get_multi_pattern(cells, default) ==
    IF cells = << >> THEN default
    ELSE IF Head(cells) # NaN THEN <<safe_int(Head(cells), default)>>
         ELSE safe_get_multi_pattern(Tail(cells), default)

\* The dict built from the first row of the match (result.iloc[0])
PrimaryRecord(row, admission_year) ==
    [major_name |-> row.name,
     program_type |-> row.ptype,
     admission_year |-> safe_int(<<row.year>>, admission_year),
     req_major_required |-> safe_get_multi_pattern(<<row.mr>>, <<15>>)[1],
     req_major_elective |-> safe_get_multi_pattern(<<row.me>>, <<33>>)[1],
     req_total |-> safe_get_multi_pattern(<<row.tot>>, <<48>>)[1],
     req_major_required_changed |-> safe_get_multi_pattern(<<row.mrc, row.mr>>, <<15>>)[1],
     req_major_elective_changed |-> safe_get_multi_pattern(<<row.mec, row.me>>, <<33>>)[1],
     req_basic_literacy |-> safe_get_multi_pattern(<<row.bl>>, NaN),
     req_basic_science |-> safe_get_multi_pattern(<<row.bs>>, NaN),
     req_core_liberal |-> safe_get_multi_pattern(<<row.cl>>, NaN),
     req_graduation_credits |-> safe_get_multi_pattern(<<row.grad>>, <<120>>)[1]]

\* result[result['year'] == closest_year] when the match is not empty
NearestYear(rows, admission_year) ==
    IF rows # << >>
    THEN SelectSeq(rows, LAMBDA r : r.year = ClosestYear(rows, admission_year))
    ELSE rows

\* 1st pass: name, program type and reference year all equal
ExactMatch(df, major, program_type, admission_year) ==
    SelectSeq(df, LAMBDA r : /\ r.name = major
                          /\ r.ptype = program_type
                          /\ r.year = admission_year)

\* 2nd pass, when the 1st found nothing and the keyword is not empty: the
\* name contains the keyword, same program type and year
PartialMatch(df, keyword, program_type, admission_year, result) ==
    IF result = << >> /\ keyword # << >>
    THEN SelectSeq(df, LAMBDA r : /\ Contains(r.name, keyword)
                               /\ r.ptype = program_type
                               /\ r.year = admission_year)
    ELSE result

\* 3rd pass, when still nothing: same name and program type, closest year
ClosestYearMatch(df, major, program_type, admission_year, result) ==
    IF result = << >>
    THEN NearestYear(SelectSeq(df, LAMBDA r : r.name = major /\ r.ptype = program_type),
                     admission_year)
    ELSE result

\* 4th pass (get_primary_requirement only), when still nothing and the
\* keyword is not empty: the name contains the keyword, same program type,
\* closest year
ClosestYearPartialMatch(df, keyword, program_type, admission_year, result) ==
    IF result = << >> /\ keyword # << >>
    THEN NearestYear(SelectSeq(df, LAMBDA r : /\ Contains(r.name, keyword)
                                           /\ r.ptype = program_type),
                     admission_year)
    ELSE result

\* A primary lookup that stops after the third pass
PrimaryMatchThreePasses(primary_major, program_type, admission_year, df) ==
    ClosestYearMatch(df, primary_major, program_type, admission_year,
        PartialMatch(df, Keyword(primary_major), program_type, admission_year,
            ExactMatch(df, primary_major, program_type, admission_year)))

\* The four matching passes of get_primary_requirement, in order
PrimaryMatch(primary_major, program_type, admission_year, df) ==
    ClosestYearPartialMatch(df, Keyword(primary_major), program_type, admission_year,
        ClosestYearMatch(df, primary_major, program_type, admission_year,
            PartialMatch(df, Keyword(primary_major), program_type, admission_year,
                ExactMatch(df, primary_major, program_type, admission_year))))

\* return None when nothing matched, else the dict of the first row
PrimaryResult(result, admission_year) ==
    IF result = << >> THEN None ELSE PrimaryRecord(result[1], admission_year)

get_primary_requirement(primary_major, program_type, admission_year, df) ==
    IF df = << >> THEN None
    ELSE PrimaryResult(PrimaryMatch(primary_major, program_type, admission_year, df),
                       admission_year)

\* Defaults that give every program type the double major's triple
MultiDefaultsAllDouble(program_type) == <<15, 21, 36>>

\* The hard-coded (required, elective, total) of get_graduation_requirement
MultiDefaults(program_type) ==
    CASE program_type = "DoubleMajor" -> <<15, 21, 36>>
      [] program_type = "Minor"       -> <<6, 15, 21>>
      [] program_type = "ConvMajor"   -> <<15, 21, 36>>
      [] program_type = "ConvMinor"   -> <<6, 15, 21>>
      [] OTHER                        -> <<15, 21, 36>>

\* The three matching passes of get_graduation_requirement, in order
MultiMatch(multi_major, program_type, admission_year, df) ==
    ClosestYearMatch(df, multi_major, program_type, admission_year,
        PartialMatch(df, Keyword(multi_major), program_type, admission_year,
            ExactMatch(df, multi_major, program_type, admission_year)))

\* The defaults when nothing matched, else the dict of the first row
MultiResult(result, multi_major, program_type, admission_year) ==
    IF result = << >>
    THEN [major_name |-> multi_major,
          program_type |-> program_type,
          admission_year |-> admission_year,
          req_multi_required |-> MultiDefaults(program_type)[1],
          req_multi_elective |-> MultiDefaults(program_type)[2],
          req_total |-> MultiDefaults(program_type)[3]]
    ELSE [major_name |-> result[1].name,
          program_type |-> result[1].ptype,
          admission_year |-> safe_int(<<result[1].year>>, admission_year),
          req_multi_required |-> safe_int(result[1].mreq, 15),
          req_multi_elective |-> safe_int(result[1].melec, 21),
          req_total |-> safe_int(result[1].total, 36)]

get_graduation_requirement(multi_major, program_type, admission_year, df) ==
    IF df = << >> THEN None
    ELSE MultiResult(MultiMatch(multi_major, program_type, admission_year, df),
                     multi_major, program_type, admission_year)

(***************************************************************************)
(* Calculation functions                                                   *)
(***************************************************************************)
\* A programme length of 8 semesters for everyone
get_total_semesters_always_eight(admission_type) == FRESHMAN_TOTAL_SEMESTERS

get_total_semesters(admission_type) ==
    IF admission_type = "Freshman" THEN FRESHMAN_TOTAL_SEMESTERS
    ELSE TRANSFER_TOTAL_SEMESTERS

calculate_remaining_semesters(admission_type, completed_semesters) ==
    Max(0, get_total_semesters(admission_type) - completed_semesters)

calculate_max_additional_credits(remaining_semesters) ==
    remaining_semesters * MAX_CREDITS_PER_SEMESTER

\* A rollover that caps the required credits and loses the excess
apply_excess_dropped(completed_required, req_required, completed_elective) ==
    IF completed_required > req_required
    THEN <<req_required, completed_elective>>
    ELSE <<completed_required, completed_elective>>

\* Returns <<adjusted required, adjusted elective>>
apply_excess_to_elective(completed_required, req_required, completed_elective) ==
    IF completed_required > req_required
    THEN <<req_required, completed_elective + (completed_required - req_required)>>
    ELSE <<completed_required, completed_elective>>

\* A deficit without the floor at 0
calculate_deficit_unclamped(completed, required) == required - completed

calculate_deficit(completed, required) == Max(0, required - completed)

\* A double-major target without the 130-credit ceiling
graduation_credits_unbounded(program_type, primary_grad_credits, multi_grad_credits, multi_major_name) ==
    IF program_type = "DoubleMajor"
    THEN IF multi_major_name = Arch5Major
         THEN Min(Max(primary_grad_credits, multi_grad_credits), 164)
         ELSE Max(primary_grad_credits, multi_grad_credits)
    ELSE primary_grad_credits

calculate_graduation_credits(program_type, primary_grad_credits, multi_grad_credits, multi_major_name) ==
    IF program_type = "DoubleMajor"
    THEN IF multi_major_name = Arch5Major
         THEN Min(Max(primary_grad_credits, multi_grad_credits), 164)
         ELSE Min(Max(primary_grad_credits, multi_grad_credits), MAX_DOUBLE_MAJOR_CREDITS)
    ELSE primary_grad_credits

\* A classification whose margin test is the wrong way round
status_margin_inverted(deficit_total, max_additional, deficit_major_required, deficit_multi_required, remaining_semesters) ==
    IF deficit_total <= 0 THEN <<"Possible", TRUE>>
    ELSE IF deficit_total > max_additional THEN <<"Infeasible", FALSE>>
    ELSE IF max_additional - deficit_total < remaining_semesters * 6
         THEN <<"Possible", TRUE>>
         ELSE <<"AtRisk", TRUE>>

\* A classification that asks for a margin strictly above 6 per semester
status_margin_strict(deficit_total, max_additional, deficit_major_required, deficit_multi_required, remaining_semesters) ==
    IF deficit_total <= 0 THEN <<"Possible", TRUE>>
    ELSE IF deficit_total > max_additional THEN <<"Infeasible", FALSE>>
    ELSE IF max_additional - deficit_total > remaining_semesters * 6
         THEN <<"Possible", TRUE>>
         ELSE <<"AtRisk", TRUE>>

\* Returns <<status, can_graduate>>
determine_graduation_status(deficit_total, max_additional, deficit_major_required, deficit_multi_required, remaining_semesters) ==
    IF deficit_total <= 0 THEN <<"Possible", TRUE>>
    ELSE IF deficit_total > max_additional THEN <<"Infeasible", FALSE>>
    ELSE LET margin == max_additional - deficit_total
         IN IF margin >= remaining_semesters * 6 THEN <<"Possible", TRUE>>
            ELSE IF margin >= 0 THEN <<"AtRisk", TRUE>>
            ELSE <<"Infeasible", FALSE>>
(***************************************************************************)
(* Analysis of one program type                                            *)
(***************************************************************************)
\* The general-education requirement of the primary record, None read as 0
OrZero(opt) == IF opt # NaN THEN opt[1] ELSE 0

\* Total completed credits of simulate_program (multi-major credits left out)
CompletedTotal(st) ==
    IF st.admission_type = "Freshman"
    THEN st.credits_basic_literacy + st.credits_basic_science + st.credits_core_liberal
         + st.credits_major_required + st.credits_major_elective + st.credits_free
    ELSE st.transfer_credits + st.credits_major_required + st.credits_major_elective
         + st.credits_free

\* Multi-major requirement used by simulate_program when the lookup gave None
SimulateMultiDefaults(program_type) ==
    CASE program_type = "DoubleMajor" -> <<15, 21>>
      [] program_type = "Minor"       -> <<6, 15>>
      [] program_type = "ConvMajor"   -> <<15, 21>>
      [] OTHER                        -> <<6, 15>>

\* A status call that classifies the graduation-credit deficit
StatusOfGraduationDeficit(a) ==
    determine_graduation_status(
        a.deficit_graduation, a.max_additional_credits, a.deficit_major_required,
        a.deficit_multi_required, a.remaining_semesters)

\* The status call at the end of simulate_program: the four category deficits
StatusOfAnalysis(a) ==
    determine_graduation_status(
        a.deficit_major_required + a.deficit_major_elective
            + a.deficit_multi_required + a.deficit_multi_elective,
        a.max_additional_credits, a.deficit_major_required,
        a.deficit_multi_required, a.remaining_semesters)

\* A graduation target that starts from the primary record's graduation
\* credits
GraduationTargetOfPrimary(program_type, multi_major, prq, grq) ==
    calculate_graduation_credits(
        program_type,
        IF ~IsNone(prq) THEN prq.req_graduation_credits ELSE DEFAULT_GRADUATION_CREDITS,
        IF ~IsNone(grq) THEN grq.req_total + DEFAULT_GRADUATION_CREDITS
        ELSE DEFAULT_GRADUATION_CREDITS,
        multi_major)

\* analysis.req_graduation_credits of simulate_program
GraduationTarget(program_type, multi_major, prq, grq) ==
    calculate_graduation_credits(
        program_type, DEFAULT_GRADUATION_CREDITS,
        IF ~IsNone(grq) THEN grq.req_total + DEFAULT_GRADUATION_CREDITS
        ELSE DEFAULT_GRADUATION_CREDITS,
        multi_major)

\* The CreditAnalysis of simulate_program, given the two lookups' results
AnalysisOf(st, program_type, multi_major, prq, grq) ==
    LET remaining_semesters ==
            calculate_remaining_semesters(st.admission_type, st.completed_semesters)
        req_major_required == IF ~IsNone(prq) THEN prq.req_major_required_changed ELSE 15
        req_major_elective == IF ~IsNone(prq) THEN prq.req_major_elective_changed ELSE 33
        req_basic_literacy == IF ~IsNone(prq) THEN OrZero(prq.req_basic_literacy) ELSE 0
        req_basic_science == IF ~IsNone(prq) THEN OrZero(prq.req_basic_science) ELSE 0
        req_core_liberal == IF ~IsNone(prq) THEN OrZero(prq.req_core_liberal) ELSE 0
        req_multi_required == IF ~IsNone(grq) THEN grq.req_multi_required
                              ELSE SimulateMultiDefaults(program_type)[1]
        req_multi_elective == IF ~IsNone(grq) THEN grq.req_multi_elective
                              ELSE SimulateMultiDefaults(program_type)[2]
        req_graduation_credits == GraduationTarget(program_type, multi_major, prq, grq)
        adj == apply_excess_to_elective(st.credits_major_required, req_major_required,
                                        st.credits_major_elective)
    IN [req_major_required |-> req_major_required,
        req_major_elective |-> req_major_elective,
        req_multi_required |-> req_multi_required,
        req_multi_elective |-> req_multi_elective,
        req_graduation_credits |-> req_graduation_credits,
        req_basic_literacy |-> req_basic_literacy,
        req_basic_science |-> req_basic_science,
        req_core_liberal |-> req_core_liberal,
        completed_major_required |-> st.credits_major_required,
        completed_major_elective |-> st.credits_major_elective,
        completed_multi_required |-> 0,
        completed_multi_elective |-> 0,
        completed_total |-> CompletedTotal(st),
        completed_basic_literacy |-> st.credits_basic_literacy,
        completed_basic_science |-> st.credits_basic_science,
        completed_core_liberal |-> st.credits_core_liberal,
        deficit_major_required |-> calculate_deficit(adj[1], req_major_required),
        deficit_major_elective |-> calculate_deficit(adj[2], req_major_elective),
        deficit_multi_required |-> req_multi_required,
        deficit_multi_elective |-> req_multi_elective,
        deficit_graduation |-> calculate_deficit(CompletedTotal(st), req_graduation_credits),
        deficit_basic_literacy |->
            calculate_deficit(st.credits_basic_literacy, req_basic_literacy),
        deficit_basic_science |->
            calculate_deficit(st.credits_basic_science, req_basic_science),
        deficit_core_liberal |->
            calculate_deficit(st.credits_core_liberal, req_core_liberal),
        remaining_semesters |-> remaining_semesters,
        max_additional_credits |-> calculate_max_additional_credits(remaining_semesters),
        req_major_required_changed |-> req_major_required,
        req_major_elective_changed |-> req_major_elective]

\* The SimulationResult: status and can_graduate from the status call, the
\* analysis, and the defaults of the other fields
ResultOf(program_type, multi_major, a, status) ==
    [program_type |-> program_type,
     multi_major_name |-> multi_major,
     can_graduate |-> status[2],
     graduation_status |-> status[1],
     credit_analysis |-> a,
     recommendation_rank |-> 0,
     recommendation_reason |-> << >>,
     is_supplementary |-> FALSE,
     semester_plan |-> << >>]

\* The tail of simulate_program: classify, then package
Classified(program_type, multi_major, a) ==
    ResultOf(program_type, multi_major, a, StatusOfAnalysis(a))

\* An evaluation that hands back the result object already in the caller's
\* list for the program type, when there is one
simulate_program_memoised(st, program_type, multi_major, prdf, grdf) ==
    IF \E i \in 1..Len(args) : args[i].program_type = program_type
    THEN args[CHOOSE i \in 1..Len(args) : args[i].program_type = program_type]
    ELSE Classified(program_type, multi_major,
                    AnalysisOf(st, program_type, multi_major,
                               get_primary_requirement(st.primary_major, program_type,
                                                       st.admission_year, prdf),
                               get_graduation_requirement(multi_major, program_type,
                                                          st.admission_year, grdf)))

simulate_program(st, program_type, multi_major, prdf, grdf) ==
    Classified(program_type, multi_major,
        AnalysisOf(st, program_type, multi_major,
            get_primary_requirement(st.primary_major, program_type, st.admission_year, prdf),
            get_graduation_requirement(multi_major, program_type, st.admission_year, grdf)))

(***************************************************************************)
(* Semester planner                                                        *)
(***************************************************************************)
Categories == {"basic_literacy", "basic_science", "core_liberal", "major_required",
               "major_elective", "multi_required", "multi_elective", "free"}

\* required_deficit: the four category deficits and the three
\* general-education deficits
RequiredDeficit(a) ==
    a.deficit_major_required + a.deficit_major_elective + a.deficit_multi_required
    + a.deficit_multi_elective + a.deficit_basic_literacy + a.deficit_basic_science
    + a.deficit_core_liberal

\* total_deficit = max(required_deficit, graduation_deficit)
TotalDeficit(a) == Max(RequiredDeficit(a), a.deficit_graduation)

\* Free credits for the whole graduation deficit
FreeDeficitWhole(a) == a.deficit_graduation

FreeDeficit(a) ==
    IF a.deficit_graduation > RequiredDeficit(a)
    THEN a.deficit_graduation - RequiredDeficit(a)
    ELSE 0

\* The planner's locals before the loop (credits_this_semester and sem_plan
\* are set in each iteration; they are given here as 0 before the first)
PlanStart(a) ==
    [sem_idx |-> 0,
     remaining |-> [major_required |-> a.deficit_major_required,
                    major_elective |-> a.deficit_major_elective,
                    multi_required |-> a.deficit_multi_required,
                    multi_elective |-> a.deficit_multi_elective,
                    basic_literacy |-> a.deficit_basic_literacy,
                    basic_science |-> a.deficit_basic_science,
                    core_liberal |-> a.deficit_core_liberal,
                    free |-> FreeDeficit(a)],
     total_remaining |-> TotalDeficit(a),
     credits_this_semester |-> 0,
     sem_plan |-> [c \in Categories |-> 0],
     plan |-> << >>]

\* Grade and half of an absolute semester number
Grade(admission_type, absolute_semester) ==
    IF admission_type = "Freshman" THEN (absolute_semester + 1) \div 2
    ELSE 3 + ((absolute_semester - 1) \div 2)

Half(absolute_semester) == IF absolute_semester % 2 = 1 THEN 1 ELSE 2

\* A planner that forgets the per-semester maximum
CreditsThisSemesterUncapped(total, remaining_semesters_count) ==
    Min((total + remaining_semesters_count - 1) \div remaining_semesters_count, total)

\* A planner that rounds the even share down
CreditsThisSemesterRoundedDown(total, remaining_semesters_count) ==
    Min(Min(MAX_CREDITS_PER_SEMESTER, total \div remaining_semesters_count), total)

\* credits_this_semester
CreditsThisSemester(total, remaining_semesters_count) ==
    Min(Min(MAX_CREDITS_PER_SEMESTER,
            (total + remaining_semesters_count - 1) \div remaining_semesters_count),
        total)

\* A planner that serves the major first in every grade
FillOrderMajorFirst(grade) ==
    <<"major_required", "multi_required", "major_elective", "multi_elective",
      "basic_literacy", "basic_science", "core_liberal", "free">>

\* The order in which the categories are served in a semester of this grade
FillOrder(grade) ==
    IF grade = 1 \/ grade = 4
    THEN <<"basic_literacy", "basic_science", "core_liberal", "major_required",
           "multi_required", "major_elective", "multi_elective", "free">>
    ELSE <<"major_required", "multi_required", "major_elective", "multi_elective",
           "basic_literacy", "basic_science", "core_liberal", "free">>

\* A take that serves a category whole, whatever is left of the semester
TakeWhole(cat, rem, credits) == rem

\* A take without the limit of 6 on the required categories
TakeUnlimited(cat, rem, credits) == Min(rem, credits)

\* take = min(remaining, remaining_credits[, 6])
Take(cat, rem, credits) ==
    IF cat \in {"major_required", "multi_required"}
    THEN Min(Min(rem, credits), 6)
    ELSE Min(rem, credits)

\* One pass over the categories: s = [rem, credits, sem]
RECURSIVE Allocate(_, _)
Allocate(order, s) ==
    IF order = << >> THEN s
    ELSE LET cat == Head(order)
         IN IF s.rem[cat] > 0 /\ s.credits > 0
            THEN LET take == Take(cat, s.rem[cat], s.credits)
                 IN Allocate(Tail(order),
                             [rem |-> [s.rem EXCEPT ![cat] = @ - take],
                              credits |-> s.credits - take,
                              sem |-> [s.sem EXCEPT ![cat] = take]])
            ELSE Allocate(Tail(order), s)

SemTotal(sem) ==
    sem.major_required + sem.major_elective + sem.multi_required + sem.multi_elective
    + sem.basic_literacy + sem.basic_science + sem.core_liberal + sem.free

\* The end of an iteration: the semester's total, the running total, and
\* the append of a semester that got credits
CloseSemester(l, idx, label, credits, out) ==
    [sem_idx |-> idx,
     remaining |-> out.rem,
     total_remaining |-> l.total_remaining - SemTotal(out.sem),
     credits_this_semester |-> credits,
     sem_plan |-> [semester |-> label, total |-> SemTotal(out.sem)] @@ out.sem,
     plan |-> IF SemTotal(out.sem) > 0
              THEN Append(l.plan, [semester |-> label, total |-> SemTotal(out.sem)] @@ out.sem)
              ELSE l.plan]

\* The allocation of an iteration, given its credit target
FillSemester(l, idx, label, credits) ==
    CloseSemester(l, idx, label, credits,
        Allocate(FillOrder(label[1]),
                 [rem |-> l.remaining, credits |-> credits,
                  sem |-> [c \in Categories |-> 0]]))

\* One iteration of the loop over the remaining semesters
PlanSemester(l, a, st) ==
    FillSemester(l, l.sem_idx + 1,
        <<Grade(st.admission_type, st.completed_semesters + l.sem_idx + 1),
          Half(st.completed_semesters + l.sem_idx + 1)>>,
        CreditsThisSemester(l.total_remaining, a.remaining_semesters - (l.sem_idx + 1) + 1))

RECURSIVE PlanLoop(_, _, _)
PlanLoop(l, a, st) ==
    IF l.sem_idx >= a.remaining_semesters THEN l
    ELSE PlanLoop(PlanSemester(l, a, st), a, st)

generate_semester_plan(a, st) ==
    IF a.remaining_semesters <= 0 THEN << >>
    ELSE PlanLoop(PlanStart(a), a, st).plan
(***************************************************************************)
(* Ranking                                                                 *)
(***************************************************************************)
FourDeficits(a) ==
    a.deficit_major_required + a.deficit_major_elective
    + a.deficit_multi_required + a.deficit_multi_elective

\* {"Possible": 0, "AtRisk": 1, "Infeasible": 2}.get(status, 2)
GradScore(status) ==
    CASE status = "Possible" -> 0
      [] status = "AtRisk"   -> 1
      [] OTHER               -> 2

\* PROGRAM_PRIORITY.get(program_type, 5)
PriorityScore(program_type) ==
    IF program_type \in DOMAIN PROGRAM_PRIORITY THEN PROGRAM_PRIORITY[program_type] ELSE 5

\* A score whose deficit bands are 2 credits wide
get_score_band_two(r) ==
    <<GradScore(r.graduation_status),
      FourDeficits(r.credit_analysis) \div 2,
      PriorityScore(r.program_type)>>

\* A score whose deficit component is the raw deficit, not its 3-credit band
get_score_unbanded(r) ==
    <<GradScore(r.graduation_status),
      FourDeficits(r.credit_analysis),
      PriorityScore(r.program_type)>>

\* get_score: (grad_score, deficit_score, priority_score)
get_score(r) ==
    <<GradScore(r.graduation_status),
      FourDeficits(r.credit_analysis) \div 3,
      PriorityScore(r.program_type)>>

\* Tuple comparison of two scores: k1 < k2
ScoreLess(k1, k2) ==
    \/ k1[1] < k2[1]
    \/ k1[1] = k2[1] /\ k1[2] < k2[2]
    \/ k1[1] = k2[1] /\ k1[2] = k2[2] /\ k1[3] < k2[3]

\* list.sort(key=get_score) is stable: an element goes after every element
\* already placed whose score is not greater
RECURSIVE InsertByScore(_, _)
InsertByScore(sorted, r) ==
    IF sorted = << >> THEN <<r>>
    ELSE IF ScoreLess(get_score(r), get_score(Head(sorted)))
         THEN <<r>> \o sorted
         ELSE <<Head(sorted)>> \o InsertByScore(Tail(sorted), r)

RECURSIVE SortByScore(_)
SortByScore(rs) ==
    IF rs = << >> THEN << >>
    ELSE InsertByScore(SortByScore(SubSeq(rs, 1, Len(rs) - 1)), rs[Len(rs)])

\* The sentences of the reason, joined by " / " in the source
generate_recommendation_reason(r, rank) ==
    LET total_deficit == FourDeficits(r.credit_analysis)
        feasibility ==
            CASE r.graduation_status = "Possible" ->
                     <<"WithinSemesters", r.credit_analysis.remaining_semesters>>
              [] r.graduation_status = "AtRisk" -> <<"IfConcentrated">>
              [] OTHER -> <<"HardToGraduate">>
        magnitude == IF total_deficit <= 36 THEN <<"OnlyCredits", total_deficit>>
                     ELSE <<"Credits", total_deficit>>
        benefit ==
            CASE r.program_type = "DoubleMajor" -> <<"TwoDegrees">>
              [] r.program_type = "Minor"       -> <<"FewCredits">>
              [] r.program_type = "ConvMajor"   -> <<"ConvergenceSkills">>
              [] r.program_type = "ConvMinor"   -> <<"ConvergenceFewCredits">>
              [] r.program_type = "LinkedMajor" -> <<"LinkedLearning">>
              [] OTHER                          -> << >>
    IN <<feasibility, magnitude>> \o (IF benefit = << >> THEN << >> ELSE <<benefit>>)

\* Ranks counted from 0, as enumerate gives them
RankedFromZero(sorted) ==
    [i \in 1..Len(sorted) |->
        [sorted[i] EXCEPT !.recommendation_rank = i - 1,
                          !.recommendation_reason = generate_recommendation_reason(sorted[i], i - 1)]]

\* Rank and reason of the result at position idx + 1
Ranked(sorted) ==
    [i \in 1..Len(sorted) |->
        [sorted[i] EXCEPT !.recommendation_rank = i,
                          !.recommendation_reason = generate_recommendation_reason(sorted[i], i)]]

\* A ranker that sorts and leaves rank and reason as they were
rank_recommendations_sort_only(rs) == SortByScore(rs)

\* Returns the list as sorted in place (main_results); supplementary is empty
rank_recommendations(rs) == Ranked(SortByScore(rs))
(***************************************************************************)
(* run_simulation                                                          *)
(***************************************************************************)
\* The CreditAnalysis of analyze_current_status, given the lookup's result
CurrentAnalysisOf(st, prq) ==
    LET remaining_semesters ==
            calculate_remaining_semesters(st.admission_type, st.completed_semesters)
        req_major_required == IF ~IsNone(prq) THEN prq.req_major_required ELSE 15
        req_major_elective == IF ~IsNone(prq) THEN prq.req_major_elective ELSE 33
        req_basic_literacy == IF ~IsNone(prq) THEN OrZero(prq.req_basic_literacy) ELSE 0
        req_basic_science == IF ~IsNone(prq) THEN OrZero(prq.req_basic_science) ELSE 0
        req_core_liberal == IF ~IsNone(prq) THEN OrZero(prq.req_core_liberal) ELSE 0
        req_graduation_credits ==
            IF ~IsNone(prq) THEN prq.req_graduation_credits ELSE DEFAULT_GRADUATION_CREDITS
        adj == apply_excess_to_elective(st.credits_major_required, req_major_required,
                                        st.credits_major_elective)
    IN [req_major_required |-> req_major_required,
        req_major_elective |-> req_major_elective,
        req_graduation_credits |-> req_graduation_credits,
        deficit_major_required |-> calculate_deficit(adj[1], req_major_required),
        deficit_major_elective |-> calculate_deficit(adj[2], req_major_elective),
        deficit_basic_literacy |->
            calculate_deficit(st.credits_basic_literacy, req_basic_literacy),
        deficit_basic_science |->
            calculate_deficit(st.credits_basic_science, req_basic_science),
        deficit_core_liberal |->
            calculate_deficit(st.credits_core_liberal, req_core_liberal),
        completed_total |-> CompletedTotal(st),
        deficit_graduation |-> calculate_deficit(CompletedTotal(st), req_graduation_credits),
        remaining_semesters |-> remaining_semesters,
        max_additional_credits |-> calculate_max_additional_credits(remaining_semesters)]

\* analyze_current_status: the primary major alone, looked up as a double major
analyze_current_status(st, prdf) ==
    CurrentAnalysisOf(st,
        get_primary_requirement(st.primary_major, "DoubleMajor", st.admission_year, prdf))

\* The program types analysed for a new applicant
ProgramsFor(is_convergence_major) ==
    IF is_convergence_major THEN <<"ConvMajor", "ConvMinor", "LinkedMajor">>
    ELSE <<"DoubleMajor", "Minor", "LinkedMajor">>

\* result.semester_plan = generate_semester_plan(result.credit_analysis, student)
WithPlan(r, st) ==
    [r EXCEPT !.semester_plan = generate_semester_plan(r.credit_analysis, st)]

\* New applicant: one result per program type, each with its semester plan
NewApplicantResult(st, program, prdf, grdf) ==
    WithPlan(simulate_program(st, program, st.desired_multi_major, prdf, grdf), st)

\* An update that recomputes the required deficit and forgets the elective one
ExistingAnalysisRequiredOnly(a, st) ==
    [a EXCEPT !.completed_multi_required = st.credits_multi_required,
              !.completed_multi_elective = st.credits_multi_elective,
              !.deficit_multi_required =
                  calculate_deficit(st.credits_multi_required, a.req_multi_required)]

\* Existing participant: the multi-major credits earned are put into the
\* analysis of simulate_program, and completed_total and deficit_graduation
\* are computed again with them
ExistingAnalysis(a, st) ==
    LET completed_total ==
            IF st.admission_type = "Freshman"
            THEN st.credits_basic_literacy + st.credits_basic_science
                 + st.credits_core_liberal + st.credits_major_required
                 + st.credits_major_elective + st.credits_multi_required
                 + st.credits_multi_elective + st.credits_free
            ELSE st.transfer_credits + st.credits_major_required
                 + st.credits_major_elective + st.credits_multi_required
                 + st.credits_multi_elective + st.credits_free
    IN [a EXCEPT !.completed_multi_required = st.credits_multi_required,
                 !.completed_multi_elective = st.credits_multi_elective,
                 !.deficit_multi_required =
                     calculate_deficit(st.credits_multi_required, a.req_multi_required),
                 !.deficit_multi_elective =
                     calculate_deficit(st.credits_multi_elective, a.req_multi_elective),
                 !.completed_total = completed_total,
                 !.deficit_graduation =
                     calculate_deficit(completed_total, a.req_graduation_credits)]

\* The result of simulate_program with its analysis overwritten; its
\* graduation_status and can_graduate stay as simulate_program set them
WithExistingCredits(r, st) ==
    [r EXCEPT !.credit_analysis = ExistingAnalysis(r.credit_analysis, st)]

ExistingParticipantResult(st, prdf, grdf) ==
    WithPlan(WithExistingCredits(
                 simulate_program(st, st.current_program, st.current_multi_major,
                                  prdf, grdf), st), st)

\* _, current_can_graduate = determine_graduation_status(...)
CurrentCanGraduate(current) ==
    determine_graduation_status(current.deficit_graduation,
                                current.max_additional_credits,
                                current.deficit_major_required, 0,
                                current.remaining_semesters)[2]

\* The AnalysisOutput. simulation_results and recommended_programs are the
\* same list object, which rank_recommendations sorts in place.
OutputOf(st, current, simulation_results, ranked) ==
    [student_input |-> st,
     current_analysis |-> current,
     current_can_graduate |-> CurrentCanGraduate(current),
     simulation_results |-> simulation_results,
     recommended_programs |-> IF ranked THEN simulation_results ELSE << >>,
     supplementary_programs |-> << >>]

\* The simulation_results of the branch taken
SimulationResults(st, is_convergence_major, prdf, grdf) ==
    IF st.student_type = "NewApplicant" /\ st.desired_multi_major # << >>
    THEN rank_recommendations(
             [i \in 1..3 |->
                 NewApplicantResult(st, ProgramsFor(is_convergence_major)[i], prdf, grdf)])
    ELSE IF /\ st.student_type = "CurrentParticipant"
            /\ st.current_program # ""
            /\ st.current_multi_major # << >>
         THEN <<ExistingParticipantResult(st, prdf, grdf)>>
         ELSE << >>

run_simulation(st, is_convergence_major, prdf, grdf) ==
    OutputOf(st, analyze_current_status(st, prdf),
             SimulationResults(st, is_convergence_major, prdf, grdf),
             st.student_type = "NewApplicant" /\ st.desired_multi_major # << >>)

(***************************************************************************)
(* Inputs: requirement tables and student snapshots                        *)
(***************************************************************************)
MaxCompleted == 8

PrRow(name, ptype, year, mr, me, tot, mrc, mec, bl, bs, cl, grad) ==
    [name |-> name, ptype |-> ptype, year |-> year, mr |-> mr, me |-> me, tot |-> tot,
     mrc |-> mrc, mec |-> mec, bl |-> bl, bs |-> bs, cl |-> cl, grad |-> grad]

GrRow(name, ptype, year, mreq, melec, total) ==
    [name |-> name, ptype |-> ptype, year |-> year,
     mreq |-> mreq, melec |-> melec, total |-> total]

\* A primary-requirement sheet: the double-major row lowers the primary
\* requirement and carries general-education requirements; the minor row
\* leaves the optional columns empty.
PrTable ==
    <<PrRow(BizMajor, "DoubleMajor", 2023, <<15>>, <<33>>, <<48>>, <<12>>, <<24>>,
            <<6>>, <<3>>, <<9>>, <<140>>),
      PrRow(BizMajor, "Minor", 2021, <<15>>, <<33>>, NaN, NaN, NaN, NaN, NaN, NaN, NaN),
      PrRow(GlobBizMajor, "LinkedMajor", 2022, <<18>>, <<30>>, <<48>>, NaN, <<27>>,
            <<6>>, NaN, NaN, <<120>>)>>

\* A multi-major sheet; its last row is malformed (a negative requirement)
GrTable ==
    <<GrRow(Arch5Major, "DoubleMajor", 2023, <<20>>, <<30>>, <<50>>),
      GrRow(EconMajor, "DoubleMajor", 2023, <<15>>, <<21>>, <<36>>),
      GrRow(EconMajor, "Minor", 2022, <<6>>, <<15>>, <<21>>),
      GrRow(EconMajor, "LinkedMajor", 2023, <<0 - 3>>, NaN, NaN)>>

SimPrTables == {<< >>, PrTable}
SimGrTables == {<< >>, GrTable}

\* Completed credits of a snapshot: major required/elective, the three
\* general-education categories, free, transfer-recognised, multi-major
Credits(mr, me, bl, bs, cl, free, transfer, xr, xe) ==
    [mr |-> mr, me |-> me, bl |-> bl, bs |-> bs, cl |-> cl, free |-> free,
     transfer |-> transfer, xr |-> xr, xe |-> xe]

CreditProfiles ==
    {Credits(0, 0, 0, 0, 0, 0, 0, 0, 0),
     Credits(9, 20, 3, 0, 6, 0, 30, 15, 10),
     Credits(18, 30, 6, 3, 9, 40, 60, 20, 25)}

StudentOf(student_type, admission_type, completed_semesters, c, program, major) ==
    [student_type |-> student_type,
     admission_year |-> 2023,
     primary_major |-> BizMajor,
     admission_type |-> admission_type,
     completed_semesters |-> completed_semesters,
     transfer_credits |-> c.transfer,
     credits_basic_literacy |-> c.bl,
     credits_basic_science |-> c.bs,
     credits_core_liberal |-> c.cl,
     credits_major_required |-> c.mr,
     credits_major_elective |-> c.me,
     credits_free |-> c.free,
     desired_multi_major |-> IF student_type = "NewApplicant" THEN major ELSE << >>,
     current_program |-> IF student_type = "CurrentParticipant" THEN program ELSE "",
     current_multi_major |-> IF student_type = "CurrentParticipant" THEN major ELSE << >>,
     credits_multi_required |-> IF student_type = "CurrentParticipant" THEN c.xr ELSE 0,
     credits_multi_elective |-> IF student_type = "CurrentParticipant" THEN c.xe ELSE 0]

SimAdmissionTypes == {"Freshman", "TransferSame"}
SimMajors == {EconMajor, LawMajor, Arch5Major}
SimPrograms == {"DoubleMajor", "Minor", "LinkedMajor"}

NewApplicants ==
    {StudentOf("NewApplicant", t, n, c, "", m) :
        t \in SimAdmissionTypes, n \in 0..MaxCompleted, c \in CreditProfiles, m \in SimMajors}

CurrentParticipants ==
    {StudentOf("CurrentParticipant", t, n, c, p, m) :
        t \in SimAdmissionTypes, n \in 0..MaxCompleted, c \in CreditProfiles,
        p \in SimPrograms, m \in SimMajors}

Students == NewApplicants \cup CurrentParticipants

(***************************************************************************)
(* SpecPlan: generate_semester_plan, one loop iteration per step, on the   *)
(* analyses run_simulation hands to it                                     *)
(***************************************************************************)
\* The analysis of the call in the new-applicant branch of run_simulation
\* (program is one of the three analysed) or in the existing-participant one
PlanInputOf(st, program, prdf, grdf) ==
    IF st.student_type = "NewApplicant"
    THEN simulate_program(st, program, st.desired_multi_major, prdf, grdf).credit_analysis
    ELSE ExistingAnalysis(
             simulate_program(st, st.current_program, st.current_multi_major,
                              prdf, grdf).credit_analysis, st)

PlanInit ==
    /\ student \in Students
    /\ pr_df \in SimPrTables
    /\ gr_df \in SimGrTables
    /\ \E conv \in BOOLEAN :
         \E i \in 1..3 :
            /\ query = [program |-> IF student.student_type = "NewApplicant"
                                    THEN ProgramsFor(conv)[i]
                                    ELSE student.current_program]
            /\ analysis = PlanInputOf(student, query.program, pr_df, gr_df)
    /\ pc = "plan_entry"
    /\ plan_state = None
    /\ pr_req = None /\ gr_req = None /\ args = None /\ ret = None
    /\ prev = None /\ output = None

\* if analysis.remaining_semesters <= 0: return plan
PlanEarlyReturn ==
    /\ pc = "plan_entry"
    /\ analysis.remaining_semesters <= 0
    /\ pc' = "plan_returned_early"
    /\ plan_state' = [plan |-> << >>]
    /\ UNCHANGED <<student, pr_df, gr_df, query, pr_req, gr_req, args, ret, prev,
                   output, analysis>>

\* The assignments before the loop
PlanEnter ==
    /\ pc = "plan_entry"
    /\ analysis.remaining_semesters > 0
    /\ pc' = "plan_loop"
    /\ plan_state' = PlanStart(analysis)
    /\ UNCHANGED <<student, pr_df, gr_df, query, pr_req, gr_req, args, ret, prev,
                   output, analysis>>

\* One iteration of for sem_idx in range(1, remaining_semesters + 1)
PlanIterate ==
    /\ pc = "plan_loop"
    /\ plan_state.sem_idx < analysis.remaining_semesters
    /\ plan_state' = PlanSemester(plan_state, analysis, student)
    /\ UNCHANGED <<pc, student, pr_df, gr_df, query, pr_req, gr_req, args, ret, prev,
                   output, analysis>>

\* return plan
PlanReturn ==
    /\ pc = "plan_loop"
    /\ plan_state.sem_idx >= analysis.remaining_semesters
    /\ pc' = "plan_done"
    /\ UNCHANGED <<student, pr_df, gr_df, query, pr_req, gr_req, args, ret, prev,
                   output, analysis, plan_state>>

PlanNext == PlanEarlyReturn \/ PlanEnter \/ PlanIterate \/ PlanReturn

SpecPlan == PlanInit /\ [][PlanNext]_vars

(***************************************************************************)
(* Properties of the planner                                               *)
(***************************************************************************)
RECURSIVE SumTotals(_)
SumTotals(p) == IF p = << >> THEN 0 ELSE Head(p).total + SumTotals(Tail(p))

\* C1: no emitted semester has a total above 18 credits, and the totals of
\* the emitted semesters sum to at most max_additional_credits, which is
\* 18 x remaining_semesters
C1_PlanWithinCaps ==
    pc \in {"plan_loop", "plan_done", "plan_returned_early"} =>
        /\ \A i \in 1..Len(plan_state.plan) :
               plan_state.plan[i].total <= MAX_CREDITS_PER_SEMESTER
        /\ SumTotals(plan_state.plan) <= analysis.max_additional_credits
        /\ analysis.max_additional_credits
               = MAX_CREDITS_PER_SEMESTER * analysis.remaining_semesters

\* A finished plan for a deficit larger than the capacity: every remaining
\* semester is emitted full
C1_Witness ==
    /\ pc = "plan_done"
    /\ TotalDeficit(analysis) > analysis.max_additional_credits
    /\ Len(plan_state.plan) >= 2
    /\ \A i \in 1..Len(plan_state.plan) :
           plan_state.plan[i].total = MAX_CREDITS_PER_SEMESTER
    /\ SumTotals(plan_state.plan) = analysis.max_additional_credits

(***************************************************************************)
(* SpecCalc: the calculation functions, called one after another; args and *)
(* ret hold the last call, prev the status call made just before it        *)
(***************************************************************************)
MaxRemaining == 2
MaxCredit == 4

ProgramTypes ==
    {"DoubleMajor", "ConvMajor", "Minor", "ConvMinor", "LinkedMajor", "MicroDegree"}
AdmissionTypes == {"Freshman", "TransferSame", "TransferDiff"}

\* admission_type is a str: a value outside the three can be passed
AdmissionInputs == AdmissionTypes \cup {"Exchange"}

\* Graduation-credit targets around the two ceilings
GradSamples == {0, 120, 129, 130, 131, 156, 163, 164, 165, 170}

CalcInit ==
    /\ pc = "calc"
    /\ args = None /\ ret = None /\ prev = None
    /\ student = None /\ pr_df = << >> /\ gr_df = << >> /\ query = None
    /\ pr_req = None /\ gr_req = None /\ output = None /\ analysis = None
    /\ plan_state = None

CalcFrame ==
    UNCHANGED <<student, pr_df, gr_df, query, pr_req, gr_req, output, analysis,
                plan_state>>

IsCall(a, fn) == ~IsNone(a) /\ a.fn = fn

StatusArgs(d, m, rem) ==
    [fn |-> "determine_graduation_status",
     deficit_total |-> d, max_additional |-> m,
     deficit_major_required |-> 0, deficit_multi_required |-> 0,
     remaining_semesters |-> rem]

StatusDeficits == (0 - 1)..(MAX_CREDITS_PER_SEMESTER * MaxRemaining + 1)

CallStatus ==
    /\ pc = "calc"
    /\ \E rem \in 0..MaxRemaining, d \in StatusDeficits :
         \E m \in {calculate_max_additional_credits(rem), 10} :
              /\ args' = StatusArgs(d, m, rem)
              /\ ret' = determine_graduation_status(d, m, 0, 0, rem)
    /\ prev' = None
    /\ pc' = "called"
    /\ CalcFrame

\* A second classification with another deficit, the other arguments held
CallStatusAgain ==
    /\ pc = "called"
    /\ IsCall(args, "determine_graduation_status")
    /\ \E d \in StatusDeficits :
          /\ args' = StatusArgs(d, args.max_additional, args.remaining_semesters)
          /\ ret' = determine_graduation_status(d, args.max_additional, 0, 0,
                                                args.remaining_semesters)
    /\ prev' = [args |-> args, ret |-> ret]
    /\ pc' = "called_again"
    /\ CalcFrame

CallApplyExcess ==
    /\ pc = "calc"
    /\ \E cr \in 0..MaxCredit, rr \in (0 - 1)..MaxCredit, ce \in 0..MaxCredit :
          /\ args' = [fn |-> "apply_excess_to_elective", completed_required |-> cr,
                      req_required |-> rr, completed_elective |-> ce]
          /\ ret' = apply_excess_to_elective(cr, rr, ce)
    /\ prev' = None
    /\ pc' = "called"
    /\ CalcFrame

CallGraduationCredits ==
    /\ pc = "calc"
    /\ \E p \in ProgramTypes, pg \in GradSamples, mg \in GradSamples,
          m \in {Arch5Major, EconMajor, << >>} :
          /\ args' = [fn |-> "calculate_graduation_credits", program_type |-> p,
                      primary_grad_credits |-> pg, multi_grad_credits |-> mg,
                      multi_major_name |-> m]
          /\ ret' = calculate_graduation_credits(p, pg, mg, m)
    /\ prev' = None
    /\ pc' = "called"
    /\ CalcFrame

CallDeficit ==
    /\ pc = "calc"
    /\ \E c \in 0..MaxCredit, r \in (0 - 1)..MaxCredit :
          /\ args' = [fn |-> "calculate_deficit", completed |-> c, required |-> r]
          /\ ret' = calculate_deficit(c, r)
    /\ prev' = None
    /\ pc' = "called"
    /\ CalcFrame

CallRemainingSemesters ==
    /\ pc = "calc"
    /\ \E t \in AdmissionInputs, n \in 0..(MaxCompleted + 1) :
          /\ args' = [fn |-> "calculate_remaining_semesters", admission_type |-> t,
                      completed_semesters |-> n]
          /\ ret' = [remaining_semesters |-> calculate_remaining_semesters(t, n),
                     max_additional_credits |->
                         calculate_max_additional_credits(
                             calculate_remaining_semesters(t, n))]
    /\ prev' = None
    /\ pc' = "called"
    /\ CalcFrame

CalcNext ==
    \/ CallStatus \/ CallStatusAgain \/ CallApplyExcess \/ CallGraduationCredits
    \/ CallDeficit \/ CallRemainingSemesters

SpecCalc == CalcInit /\ [][CalcNext]_vars

(***************************************************************************)
(* Properties of the calculation functions                                 *)
(***************************************************************************)
Severity(status) ==
    CASE status = "Possible" -> 0 [] status = "AtRisk" -> 1 [] status = "Infeasible" -> 2

\* C2: Possible when deficit_total <= 0; Infeasible when deficit_total is
\* above max_additional; otherwise Possible when the margin
\* max_additional - deficit_total is at least 6 x remaining_semesters and
\* AtRisk when not; can_graduate is true exactly for Possible and AtRisk; and
\* with max_additional = 18 x remaining, AtRisk is exactly
\* 12 x remaining < deficit_total <= 18 x remaining
C2_StatusRule ==
    IsCall(args, "determine_graduation_status") =>
        /\ (args.deficit_total <= 0) => (ret[1] = "Possible")
        /\ (args.deficit_total > 0 /\ args.deficit_total > args.max_additional)
               => (ret[1] = "Infeasible")
        /\ (/\ args.deficit_total > 0
            /\ args.deficit_total <= args.max_additional
            /\ args.max_additional - args.deficit_total >= 6 * args.remaining_semesters)
               => (ret[1] = "Possible")
        /\ (/\ args.deficit_total > 0
            /\ args.deficit_total <= args.max_additional
            /\ args.max_additional - args.deficit_total < 6 * args.remaining_semesters)
               => (ret[1] = "AtRisk")
        /\ ret[2] = (ret[1] \in {"Possible", "AtRisk"})
        /\ (args.max_additional = 18 * args.remaining_semesters)
               => (ret[1] = "AtRisk" <=>
                      (/\ 12 * args.remaining_semesters < args.deficit_total
                       /\ args.deficit_total <= 18 * args.remaining_semesters))

\* An AtRisk classification at the edge of the capacity
C2_Witness ==
    /\ IsCall(args, "determine_graduation_status")
    /\ args.remaining_semesters = 2
    /\ args.deficit_total = 25
    /\ args.max_additional = 36
    /\ ret = <<"AtRisk", TRUE>>

\* C6: for the same max_additional and remaining_semesters, a larger
\* deficit_total never gets a less severe status
C6_StatusMonotonic ==
    (IsCall(args, "determine_graduation_status") /\ ~IsNone(prev)) =>
        /\ prev.args.deficit_total <= args.deficit_total
               => Severity(prev.ret[1]) <= Severity(ret[1])
        /\ args.deficit_total <= prev.args.deficit_total
               => Severity(ret[1]) <= Severity(prev.ret[1])

\* Two classifications with the same capacity, the second with a larger
\* deficit and a strictly worse status
C6_Witness ==
    /\ IsCall(args, "determine_graduation_status")
    /\ ~IsNone(prev)
    /\ prev.args.max_additional = args.max_additional
    /\ prev.args.remaining_semesters = args.remaining_semesters
    /\ prev.args.deficit_total < args.deficit_total
    /\ prev.ret[1] = "Possible"
    /\ ret[1] = "AtRisk"

\* C7: when completed_required exceeds req_required the result is
\* (req_required, completed_elective + excess) and the two results sum to
\* completed_required + completed_elective; otherwise the inputs come back
C7_ExcessRollsOver ==
    IsCall(args, "apply_excess_to_elective") =>
        IF args.completed_required > args.req_required
        THEN /\ ret[1] = args.req_required
             /\ ret[2] = args.completed_elective
                           + (args.completed_required - args.req_required)
             /\ ret[1] + ret[2] = args.completed_required + args.completed_elective
        ELSE ret = <<args.completed_required, args.completed_elective>>

\* A call whose excess of 2 credits is rolled over
C7_Witness ==
    /\ IsCall(args, "apply_excess_to_elective")
    /\ args.completed_required = args.req_required + 2
    /\ args.completed_elective = 1
    /\ ret = <<args.req_required, 3>>

\* C8: for a double major the target is min(max(primary, multi), 130), or
\* min(max(primary, multi), 164) when the multi-major is the 5-year
\* architecture major; for every other program type it is the primary
\* target; so a double-major target is never above 130 (164)
C8_GraduationCredits ==
    IsCall(args, "calculate_graduation_credits") =>
        /\ (args.program_type = "DoubleMajor" /\ args.multi_major_name # Arch5Major)
               => /\ ret = Min(Max(args.primary_grad_credits, args.multi_grad_credits), 130)
                  /\ ret <= 130
        /\ (args.program_type = "DoubleMajor" /\ args.multi_major_name = Arch5Major)
               => /\ ret = Min(Max(args.primary_grad_credits, args.multi_grad_credits), 164)
                  /\ ret <= 164
        /\ args.program_type # "DoubleMajor" => ret = args.primary_grad_credits

\* A double major whose larger target, 156, is cut to 130
C8_Witness ==
    /\ IsCall(args, "calculate_graduation_credits")
    /\ args.program_type = "DoubleMajor"
    /\ args.multi_major_name = EconMajor
    /\ args.primary_grad_credits = 120
    /\ args.multi_grad_credits = 156
    /\ ret = 130

(***************************************************************************)
(* SpecSim: run_simulation on a student snapshot and the two tables        *)
(***************************************************************************)
SimInit ==
    /\ student \in Students
    /\ pr_df \in SimPrTables
    /\ gr_df \in SimGrTables
    /\ query \in {[is_convergence_major |-> b] :
                      b \in IF student.student_type = "NewApplicant"
                            THEN BOOLEAN ELSE {FALSE}}
    /\ pc = "ready"
    /\ output = None
    /\ pr_req = None /\ gr_req = None /\ args = None /\ ret = None
    /\ prev = None /\ analysis = None /\ plan_state = None

RunSimulation ==
    /\ pc = "ready"
    /\ output' = run_simulation(student, query.is_convergence_major, pr_df, gr_df)
    /\ pc' = "done"
    /\ UNCHANGED <<student, pr_df, gr_df, query, pr_req, gr_req, args, ret, prev,
                   analysis, plan_state>>

SimNext == RunSimulation

SpecSim == SimInit /\ [][SimNext]_vars

(***************************************************************************)
(* Properties of run_simulation                                            *)
(***************************************************************************)
\* C3: in every result of run_simulation, graduation_status and
\* can_graduate are the classification of the sum of the four category
\* deficits recorded in the result's credit_analysis, with that analysis's
\* max_additional_credits and remaining_semesters
C3_StatusMatchesRecordedDeficits ==
    pc = "done" =>
        \A i \in 1..Len(output.simulation_results) :
            <<output.simulation_results[i].graduation_status,
              output.simulation_results[i].can_graduate>>
            = determine_graduation_status(
                  FourDeficits(output.simulation_results[i].credit_analysis),
                  output.simulation_results[i].credit_analysis.max_additional_credits,
                  output.simulation_results[i].credit_analysis.deficit_major_required,
                  output.simulation_results[i].credit_analysis.deficit_multi_required,
                  output.simulation_results[i].credit_analysis.remaining_semesters)

\* C9: for a new applicant the two multi-major deficits are the full
\* requirements (completed multi-major credits taken as 0); for an existing
\* participant each is max(0, requirement - credits completed in it)
C9_MultiDeficits ==
    pc = "done" =>
        \A i \in 1..Len(output.simulation_results) :
            IF student.student_type = "NewApplicant"
            THEN /\ output.simulation_results[i].credit_analysis.deficit_multi_required
                      = output.simulation_results[i].credit_analysis.req_multi_required
                 /\ output.simulation_results[i].credit_analysis.deficit_multi_elective
                      = output.simulation_results[i].credit_analysis.req_multi_elective
                 /\ output.simulation_results[i].credit_analysis.completed_multi_required = 0
                 /\ output.simulation_results[i].credit_analysis.completed_multi_elective = 0
            ELSE /\ output.simulation_results[i].credit_analysis.deficit_multi_required
                      = Max(0, output.simulation_results[i].credit_analysis.req_multi_required
                               - student.credits_multi_required)
                 /\ output.simulation_results[i].credit_analysis.deficit_multi_elective
                      = Max(0, output.simulation_results[i].credit_analysis.req_multi_elective
                               - student.credits_multi_elective)

\* An existing participant with 15 of 15 required and 10 of 21 elective
\* multi-major credits: deficits 0 and 11
C9_Witness ==
    /\ pc = "done"
    /\ student.student_type = "CurrentParticipant"
    /\ student.credits_multi_required = 15
    /\ student.credits_multi_elective = 10
    /\ Len(output.simulation_results) = 1
    /\ output.simulation_results[1].credit_analysis.req_multi_required = 15
    /\ output.simulation_results[1].credit_analysis.req_multi_elective = 21
    /\ output.simulation_results[1].credit_analysis.deficit_multi_required = 0
    /\ output.simulation_results[1].credit_analysis.deficit_multi_elective = 11

(***************************************************************************)
(* SpecRank: rank_recommendations applied to a list of simulation results  *)
(***************************************************************************)
MaxResults == 3

\* New applicants in their 5th semester, one per credit profile
RankStudents ==
    {StudentOf("NewApplicant", "Freshman", 4, c, "", LawMajor) : c \in CreditProfiles}

RankPrograms == {"DoubleMajor", "Minor", "LinkedMajor", "MicroDegree"}

\* A multi-major sheet whose linked-major and micro-degree rows ask two
\* credits and one credit less than the minor's default requirement
RankGrTable ==
    <<GrRow(LawMajor, "LinkedMajor", 2023, <<6>>, <<13>>, <<19>>),
      GrRow(LawMajor, "MicroDegree", 2023, <<6>>, <<14>>, <<20>>)>>

\* The results run_simulation collects before ranking
RankCandidates ==
    {simulate_program(st, p, st.desired_multi_major, << >>, RankGrTable) :
        st \in RankStudents, p \in RankPrograms}

RankInit ==
    /\ pc = "collect"
    /\ args = << >>
    /\ ret = None /\ prev = None
    /\ student = None /\ pr_df = << >> /\ gr_df = << >> /\ query = None
    /\ pr_req = None /\ gr_req = None /\ output = None
    /\ analysis = None /\ plan_state = None

\* results.append(result)
AddResult ==
    /\ pc = "collect"
    /\ Len(args) < MaxResults
    /\ \E r \in RankCandidates : args' = Append(args, r)
    /\ UNCHANGED <<pc, student, pr_df, gr_df, query, pr_req, gr_req, ret, prev, output,
                   analysis, plan_state>>

\* main_results, supplementary = rank_recommendations(results): the list is
\* sorted in place and its elements receive rank and reason
CallRank ==
    /\ pc = "collect"
    /\ prev' = args
    /\ ret' = rank_recommendations(args)
    /\ args' = ret'
    /\ pc' = "ranked"
    /\ UNCHANGED <<student, pr_df, gr_df, query, pr_req, gr_req, output, analysis, plan_state>>

\* A second ranking, of the list as first given with the deficit of one
\* result moved by at most 2 credits inside its band of 3 and its tier
Perturbed(rs, i, delta) ==
    [rs EXCEPT ![i].credit_analysis.deficit_multi_elective = @ + delta]

StaysInBandAndTier(r, delta) ==
    /\ r.credit_analysis.deficit_multi_elective + delta >= 0
    /\ (FourDeficits(r.credit_analysis) + delta) \div 3 = FourDeficits(r.credit_analysis) \div 3
    /\ determine_graduation_status(FourDeficits(r.credit_analysis) + delta,
                                   r.credit_analysis.max_additional_credits,
                                   r.credit_analysis.deficit_major_required,
                                   r.credit_analysis.deficit_multi_required,
                                   r.credit_analysis.remaining_semesters)[1]
       = r.graduation_status

CallRankPerturbed ==
    /\ pc = "ranked"
    /\ \E i \in 1..Len(prev) : \E delta \in {0 - 2, 0 - 1, 1, 2} :
           /\ StaysInBandAndTier(prev[i], delta)
           /\ prev' = [results |-> prev, ranked |-> ret,
                       perturbed |-> Perturbed(prev, i, delta)]
           /\ ret' = rank_recommendations(Perturbed(prev, i, delta))
    /\ args' = ret'
    /\ pc' = "reranked"
    /\ UNCHANGED <<student, pr_df, gr_df, query, pr_req, gr_req, output, analysis, plan_state>>

RankNext == AddResult \/ CallRank \/ CallRankPerturbed
SpecRank == RankInit /\ [][RankNext]_vars

\* The ordering key as the claim states it
C5_Key(r) ==
    <<CASE r.graduation_status = "Possible" -> 0
        [] r.graduation_status = "AtRisk" -> 1
        [] r.graduation_status = "Infeasible" -> 2,
      (r.credit_analysis.deficit_major_required + r.credit_analysis.deficit_major_elective
       + r.credit_analysis.deficit_multi_required + r.credit_analysis.deficit_multi_elective)
          \div 3,
      CASE r.program_type = "DoubleMajor" -> 1
        [] r.program_type = "ConvMajor" -> 2
        [] r.program_type = "Minor" -> 3
        [] r.program_type = "ConvMinor" -> 4
        [] r.program_type = "LinkedMajor" -> 5
        [] OTHER -> 5>>

C5_KeyLeq(k1, k2) ==
    \/ k1[1] < k2[1]
    \/ k1[1] = k2[1] /\ k1[2] < k2[2]
    \/ k1[1] = k2[1] /\ k1[2] = k2[2] /\ k1[3] <= k2[3]

\* C5: the list returned by rank_recommendations is in ascending order of
\* (status rank, four-deficit sum floor-divided by 3, program priority), it
\* holds the results it was given, and recommendation_rank is 1..n in order
C5_RankedAscending ==
    pc = "ranked" =>
        /\ Len(ret) = Len(prev)
        /\ \A i \in 1..Len(ret) : ret[i].recommendation_rank = i
        /\ \A i \in 1..Len(ret) : \A j \in i..Len(ret) :
               C5_KeyLeq(C5_Key(ret[i]), C5_Key(ret[j]))
        /\ \E f \in [1..Len(ret) -> 1..Len(ret)] :
               /\ \A i, j \in 1..Len(ret) : f[i] = f[j] => i = j
               /\ \A i \in 1..Len(ret) :
                      [ret[i] EXCEPT !.recommendation_rank = 0,
                                     !.recommendation_reason = << >>] = prev[f[i]]

\* A list given worst-first comes back best-first: three different statuses,
\* each element moved
C5_Witness ==
    /\ pc = "ranked"
    /\ Len(ret) = 3
    /\ prev[1].graduation_status = "Infeasible"
    /\ prev[2].graduation_status = "AtRisk"
    /\ prev[3].graduation_status = "Possible"
    /\ ret[1].graduation_status = "Possible"
    /\ ret[3].graduation_status = "Infeasible"
    /\ ret[3].recommendation_rank = 3

(***************************************************************************)
(* SpecLookup: the two requirement lookups on small sheets                 *)
(***************************************************************************)
YearSpan == 3

LookupYears == 2020..(2020 + YearSpan)

LookupMajors ==
    {BizMajor, BizMajorPCam, BizSpMajor, GlobBizMajor, EconMajor, LawMajor, OnlyMajor,
     Arch5Major}

LookupPrograms == {"DoubleMajor", "Minor", "ConvMajor", "ConvMinor"}

\* Sheets whose rows differ in name, program type or year, never all three
\* equal: the same major at several years, and names that contain another's
LookupPrTable ==
    <<PrRow(GlobBizMajor, "DoubleMajor", 2021, <<11>>, <<21>>, <<32>>, NaN, NaN, NaN, NaN, NaN, NaN),
      PrRow(BizMajor, "DoubleMajor", 2020, <<12>>, <<22>>, <<34>>, NaN, NaN, NaN, NaN, NaN, NaN),
      PrRow(BizMajor, "DoubleMajor", 2022, <<13>>, <<23>>, <<36>>, NaN, NaN, NaN, NaN, NaN, NaN),
      PrRow(BizMajorPCam, "Minor", 2023, <<14>>, <<24>>, <<38>>, NaN, NaN, NaN, NaN, NaN, NaN),
      PrRow(EconMajor, "Minor", 2023, <<15>>, <<25>>, <<40>>, NaN, NaN, NaN, NaN, NaN, NaN),
      PrRow(EconMajor, "Minor", 2021, <<16>>, <<26>>, <<42>>, NaN, NaN, NaN, NaN, NaN, NaN),
      PrRow(Arch5Major, "DoubleMajor", 2022, <<17>>, <<27>>, <<44>>, NaN, NaN, NaN, NaN, NaN, NaN)>>

LookupGrTable ==
    <<GrRow(GlobBizMajor, "DoubleMajor", 2021, <<11>>, <<21>>, <<32>>),
      GrRow(BizMajor, "DoubleMajor", 2020, <<12>>, <<22>>, <<34>>),
      GrRow(BizMajor, "DoubleMajor", 2022, <<13>>, <<23>>, <<36>>),
      GrRow(BizMajorPCam, "Minor", 2023, <<14>>, <<24>>, <<38>>),
      GrRow(EconMajor, "Minor", 2023, <<15>>, <<25>>, <<40>>),
      GrRow(EconMajor, "Minor", 2021, <<16>>, <<26>>, <<42>>),
      GrRow(Arch5Major, "DoubleMajor", 2022, <<17>>, <<27>>, <<44>>)>>

LookupPrTables == {<< >>, PrTable, LookupPrTable}
LookupGrTables == {<< >>, GrTable, LookupGrTable}

LookupInit ==
    /\ query \in [major : LookupMajors, program_type : LookupPrograms,
                  admission_year : LookupYears]
    /\ pr_df \in LookupPrTables
    /\ gr_df \in LookupGrTables
    /\ pc = "ready"
    /\ pr_req = None /\ gr_req = None
    /\ student = None /\ args = None /\ ret = None /\ prev = None
    /\ output = None /\ analysis = None /\ plan_state = None

LookupPrimary ==
    /\ pc = "ready"
    /\ pr_req' = get_primary_requirement(query.major, query.program_type,
                                         query.admission_year, pr_df)
    /\ pc' = "primary_done"
    /\ UNCHANGED <<student, pr_df, gr_df, query, gr_req, args, ret, prev, output,
                   analysis, plan_state>>

LookupMulti ==
    /\ pc = "ready"
    /\ gr_req' = get_graduation_requirement(query.major, query.program_type,
                                            query.admission_year, gr_df)
    /\ pc' = "multi_done"
    /\ UNCHANGED <<student, pr_df, gr_df, query, pr_req, args, ret, prev, output,
                   analysis, plan_state>>

LookupNext == LookupPrimary \/ LookupMulti
SpecLookup == LookupInit /\ [][LookupNext]_vars

(***************************************************************************)
(* Properties of the lookups                                               *)
(***************************************************************************)
\* The rows of a sheet with the queried program type
RowsOfType(df) == {df[i] : i \in {k \in 1..Len(df) : df[k].ptype = query.program_type}}

\* ... that have exactly the queried name
NameRows(df) == {r \in RowsOfType(df) : r.name = query.major}

\* ... whose name contains the keyword of the queried name
ContainingRows(df) ==
    IF Keyword(query.major) = << >> THEN {}
    ELSE {r \in RowsOfType(df) : Contains(r.name, Keyword(query.major))}

AtQueryYear(rows) == {r \in rows : r.year = query.admission_year}

\* The rows of a set at minimum distance from the queried year
NearestRows(rows) ==
    {r \in rows : \A t \in rows :
        Abs(r.year - query.admission_year) <= Abs(t.year - query.admission_year)}

\* The record was built from one of the rows
FromRow(req, rows) ==
    /\ ~IsNone(req)
    /\ \E r \in rows : /\ req.major_name = r.name
                       /\ req.program_type = r.ptype
                       /\ req.admission_year = r.year

\* The hard-coded record of get_graduation_requirement
IsMultiDefault(req) ==
    /\ ~IsNone(req)
    /\ req = [major_name |-> query.major,
              program_type |-> query.program_type,
              admission_year |-> query.admission_year,
              req_multi_required |-> IF query.program_type \in {"Minor", "ConvMinor"} THEN 6 ELSE 15,
              req_multi_elective |-> IF query.program_type \in {"Minor", "ConvMinor"} THEN 15 ELSE 21,
              req_total |-> IF query.program_type \in {"Minor", "ConvMinor"} THEN 21 ELSE 36]

C10_NearestContaining(df, req, is_primary) ==
    (/\ df # << >>
     /\ Keyword(query.major) # << >>
     /\ AtQueryYear(NameRows(df)) = {})
    => IF NameRows(df) \cup ContainingRows(df) # {}
       THEN FromRow(req, NearestRows(NameRows(df) \cup ContainingRows(df)))
       ELSE IF is_primary THEN IsNone(req) ELSE IsMultiDefault(req)

\* C10 as stated
C10_AnyYearContaining ==
    /\ pc = "primary_done" => C10_NearestContaining(pr_df, pr_req, TRUE)
    /\ pc = "multi_done" => C10_NearestContaining(gr_df, gr_req, FALSE)

\* The fallback chain of the code, for one lookup with no exact row
C10_Chain(df, req, is_primary) ==
    (df # << >> /\ AtQueryYear(NameRows(df)) = {})
    => IF AtQueryYear(ContainingRows(df)) # {}
       THEN FromRow(req, AtQueryYear(ContainingRows(df)))
       ELSE IF NameRows(df) # {}
       THEN FromRow(req, NearestRows(NameRows(df)))
       ELSE IF is_primary /\ ContainingRows(df) # {}
       THEN FromRow(req, NearestRows(ContainingRows(df)))
       ELSE IF is_primary THEN IsNone(req) ELSE IsMultiDefault(req)

\* C10, amended: with no exact row, both lookups use a row of the type and
\* the queried year whose name contains the keyword; failing that, the rows
\* with exactly the queried name and type at the closest year; failing that,
\* get_primary_requirement alone uses the rows of the type that contain the
\* keyword at the closest year, and returns None when there are none, while
\* get_graduation_requirement returns its default even when a containing
\* row exists at another year
C10_FallbackChain ==
    /\ pc = "primary_done" => C10_Chain(pr_df, pr_req, TRUE)
    /\ pc = "multi_done" => C10_Chain(gr_df, gr_req, FALSE)

\* The multi-major lookup returns the default although rows of the type
\* contain the keyword at other years
C10_Witness ==
    /\ pc = "multi_done"
    /\ gr_df # << >>
    /\ NameRows(gr_df) = {}
    /\ AtQueryYear(ContainingRows(gr_df)) = {}
    /\ ContainingRows(gr_df) # {}
    /\ IsMultiDefault(gr_req)

\* No row of the multi-major sheet matches the query in any of the passes
NoMultiRowMatches ==
    /\ NameRows(gr_df) = {}
    /\ AtQueryYear(ContainingRows(gr_df)) = {}

\* The triple C11 gives for a program type
C11_Triple(req) ==
    /\ ~IsNone(req)
    /\ <<req.req_multi_required, req.req_multi_elective, req.req_total>>
       = CASE query.program_type \in {"DoubleMajor", "ConvMajor"} -> <<15, 21, 36>>
           [] query.program_type \in {"Minor", "ConvMinor"} -> <<6, 15, 21>>

\* C11 as stated: whenever no row matches, an empty sheet included, the
\* multi-major lookup returns the default triple of the program type
C11_DefaultWhenNoMatch ==
    (pc = "multi_done" /\ NoMultiRowMatches) => C11_Triple(gr_req)

\* C11, amended: when the sheet is not empty and no row matches, the
\* multi-major lookup returns (15,21,36) for double and convergence majors
\* and (6,15,21) for minors and convergence minors; on an empty sheet it
\* returns None
C11_DefaultTriple ==
    (pc = "multi_done" /\ NoMultiRowMatches) =>
        IF gr_df = << >> THEN IsNone(gr_req) ELSE C11_Triple(gr_req)

\* A convergence minor not in the sheet gets (6, 15, 21)
C11_Witness ==
    /\ pc = "multi_done"
    /\ gr_df # << >>
    /\ NoMultiRowMatches
    /\ query.program_type = "ConvMinor"
    /\ gr_req.req_multi_required = 6
    /\ gr_req.req_multi_elective = 15
    /\ gr_req.req_total = 21

(***************************************************************************)
(* Properties of the ranking under small deficit differences               *)
(***************************************************************************)
\* A result as it was given to the ranker
Unranked(r) == [r EXCEPT !.recommendation_rank = 0, !.recommendation_reason = << >>]

\* C12: two ranked results of the same tier whose four-deficit sums differ
\* by at most 2 are in program-priority order
C12_WithinTwoByPriority ==
    pc = "ranked" =>
        \A i \in 1..Len(ret) : \A j \in (i + 1)..Len(ret) :
            (/\ ret[i].graduation_status = ret[j].graduation_status
             /\ Abs(FourDeficits(ret[i].credit_analysis)
                    - FourDeficits(ret[j].credit_analysis)) <= 2)
            => PriorityScore(ret[i].program_type) <= PriorityScore(ret[j].program_type)

\* C13: the ranking of the perturbed list is the ranking of the original
\* list, position by position: one rearrangement of the input positions
\* gives both
C13_OrderUnchanged ==
    pc = "reranked" =>
        \E f \in [1..Len(ret) -> 1..Len(ret)] :
            /\ \A i, j \in 1..Len(ret) : f[i] = f[j] => i = j
            /\ \A k \in 1..Len(ret) :
                   /\ Unranked(prev.ranked[k]) = prev.results[f[k]]
                   /\ Unranked(ret[k]) = prev.perturbed[f[k]]

\* A minor at 40 credits ahead of a micro-degree at 39, which is then moved
\* to 41: the order stays
C13_Witness ==
    /\ pc = "reranked"
    /\ Len(ret) = 2
    /\ prev.ranked[1].program_type = "Minor"
    /\ FourDeficits(prev.ranked[1].credit_analysis) = 40
    /\ prev.ranked[2].program_type = "MicroDegree"
    /\ FourDeficits(prev.ranked[2].credit_analysis) = 39
    /\ FourDeficits(ret[2].credit_analysis) = 41
    /\ ret[1].program_type = "Minor"

(***************************************************************************)
(* Properties of the planner's running total                               *)
(***************************************************************************)
\* C14: the running total_remaining is max(required_deficit,
\* graduation_deficit) less the totals of the semesters planned so far, it
\* is never negative, and so the emitted totals sum to at most that maximum
C14_RunningTotal ==
    pc \in {"plan_loop", "plan_done"} =>
        /\ plan_state.total_remaining >= 0
        /\ plan_state.total_remaining
           = Max(analysis.deficit_major_required + analysis.deficit_major_elective
                 + analysis.deficit_multi_required + analysis.deficit_multi_elective
                 + analysis.deficit_basic_literacy + analysis.deficit_basic_science
                 + analysis.deficit_core_liberal,
                 analysis.deficit_graduation)
             - SumTotals(plan_state.plan)
        /\ plan_state.sem_idx >= 1 => plan_state.sem_plan.total >= 0

\* A finished plan of several semesters that used the deficit up, the
\* graduation deficit being the larger of the two
C14_Witness ==
    /\ pc = "plan_done"
    /\ Len(plan_state.plan) >= 2
    /\ plan_state.total_remaining = 0
    /\ analysis.deficit_graduation > RequiredDeficit(analysis)
    /\ SumTotals(plan_state.plan) = analysis.deficit_graduation

(***************************************************************************)
(* Properties of run_simulation: general education, clamping               *)
(***************************************************************************)
GeneralEducationPlanned(sem) == sem.basic_literacy + sem.basic_science + sem.core_liberal

\* C15: for a student admitted by 3rd-year transfer, every result has the
\* three general-education deficits at 0 and a plan without
\* general-education credits
C15_NoGeneralEducationForTransfer ==
    (pc = "done" /\ student.admission_type # "Freshman") =>
        \A i \in 1..Len(output.simulation_results) :
            /\ output.simulation_results[i].credit_analysis.deficit_basic_literacy = 0
            /\ output.simulation_results[i].credit_analysis.deficit_basic_science = 0
            /\ output.simulation_results[i].credit_analysis.deficit_core_liberal = 0
            /\ \A k \in 1..Len(output.simulation_results[i].semester_plan) :
                   GeneralEducationPlanned(output.simulation_results[i].semester_plan[k]) = 0

\* A transfer student with no general-education credits entered: deficits
\* 6, 3 and 9 in the double-major result, and general education in its plan
C15_TransferCase ==
    /\ pc = "done"
    /\ student.admission_type = "TransferSame"
    /\ student.student_type = "NewApplicant"
    /\ student.completed_semesters = 2
    /\ student.credits_basic_literacy = 0
    /\ \E i \in 1..Len(output.simulation_results) :
           /\ output.simulation_results[i].program_type = "DoubleMajor"
           /\ output.simulation_results[i].credit_analysis.deficit_basic_literacy = 6
           /\ output.simulation_results[i].credit_analysis.deficit_basic_science = 3
           /\ output.simulation_results[i].credit_analysis.deficit_core_liberal = 9
           /\ \E k \in 1..Len(output.simulation_results[i].semester_plan) :
                  GeneralEducationPlanned(output.simulation_results[i].semester_plan[k]) > 0

(***************************************************************************)
(* Properties of the core's handling of values outside the closed sets     *)
(***************************************************************************)
\* C16: a call with an admission type outside the closed set ends in a
\* validation error, not in a value
C16_InvalidAdmissionRejected ==
    (/\ pc = "called"
     /\ IsCall(args, "calculate_remaining_semesters")
     /\ args.admission_type \notin {"Freshman", "TransferSame", "TransferDiff"})
    => "error" \in DOMAIN ret

\* The deficit fields of a CreditAnalysis and its remaining_semesters
NonNegativeAnalysis(a) ==
    /\ a.deficit_major_required >= 0
    /\ a.deficit_major_elective >= 0
    /\ a.deficit_multi_required >= 0
    /\ a.deficit_multi_elective >= 0
    /\ a.deficit_basic_literacy >= 0
    /\ a.deficit_basic_science >= 0
    /\ a.deficit_core_liberal >= 0
    /\ a.deficit_graduation >= 0
    /\ a.remaining_semesters >= 0

\* C17: every deficit field and remaining_semesters of every CreditAnalysis
\* that run_simulation produces is at least 0
C17_NeverNegative ==
    pc = "done" =>
        \A i \in 1..Len(output.simulation_results) :
            NonNegativeAnalysis(output.simulation_results[i].credit_analysis)

(***************************************************************************)
(* SpecFrame: the planner, run_simulation and the ranker, each called on   *)
(* its own, to compare the arguments before and after a call               *)
(***************************************************************************)
FrameInit == PlanInit \/ SimInit \/ RankInit
FrameNext == PlanNext \/ SimNext \/ RankNext
SpecFrame == FrameInit /\ [][FrameNext]_vars

\* C18 as stated, for the ranker: after the call the list it was given is
\* as it was before the call
C18_ArgumentsUnchanged == pc = "ranked" => args = prev

\* What the call of rank_recommendations does to the list it is given
RankedInPlace(before, after) ==
    /\ Len(after) = Len(before)
    /\ \A k \in 1..Len(after) :
           /\ after[k].recommendation_rank = k
           /\ after[k].recommendation_reason # << >>
    /\ \E f \in [1..Len(after) -> 1..Len(after)] :
           /\ \A i, j \in 1..Len(after) : f[i] = f[j] => i = j
           /\ \A k \in 1..Len(after) : Unranked(after[k]) = before[f[k]]

\* C18, amended: generate_semester_plan and the evaluation write to none of
\* their arguments (student snapshot, CreditAnalysis, requirement sheets);
\* rank_recommendations writes to its argument: the list is reordered in
\* place, it is the list returned, and each result object receives its rank
\* and reason, its other fields staying as they were
C18_OnlyRankerWrites ==
    [][/\ pc \in {"plan_entry", "plan_loop"} => (analysis' = analysis /\ student' = student)
       /\ pc = "ready" => (student' = student /\ pr_df' = pr_df /\ gr_df' = gr_df)
       /\ (pc = "collect" /\ pc' = "ranked") =>
              (args' = ret' /\ RankedInPlace(args, args'))]_vars

\* A list of two results that the call reordered
C18_Witness ==
    /\ pc = "ranked"
    /\ Len(args) = 2
    /\ Unranked(args[1]) = prev[2]
    /\ Unranked(args[2]) = prev[1]
    /\ prev[1] # prev[2]

(***************************************************************************)
(* SpecEval: evaluations of one student, with rankings and plans of the    *)
(* results collected so far in between                                     *)
(***************************************************************************)
MaxCalls == 2

EvalPrograms == {"DoubleMajor", "Minor", "LinkedMajor"}

EvalStudents ==
    {StudentOf("NewApplicant", "Freshman", 4, c, "", EconMajor) :
        c \in {p \in CreditProfiles : p.free = 0}}

\* output holds every value returned so far: the program type asked, the
\* number of the call for that program type, and the result as returned
EvalInit ==
    /\ student \in EvalStudents
    /\ pr_df = PrTable
    /\ gr_df = GrTable
    /\ pc = "eval"
    /\ args = << >>
    /\ output = {}
    /\ ret = None /\ prev = None /\ query = None
    /\ pr_req = None /\ gr_req = None /\ analysis = None /\ plan_state = None

CallsOf(program) == Cardinality({h \in output : h.program_type = program})

\* result = simulate_program(student, program, major, pr_df, gr_df);
\* results.append(result)
Evaluate ==
    /\ pc = "eval"
    /\ \E p \in EvalPrograms :
          /\ CallsOf(p) < MaxCalls
          /\ ret' = simulate_program(student, p, student.desired_multi_major, pr_df, gr_df)
          /\ output' = output \cup {[program_type |-> p, call |-> CallsOf(p) + 1,
                                     result |-> ret']}
          /\ query' = [program_type |-> p]
    /\ args' = IF Len(args) < MaxResults THEN Append(args, ret') ELSE args
    /\ UNCHANGED <<pc, student, pr_df, gr_df, pr_req, gr_req, prev, analysis, plan_state>>

\* rank_recommendations(results)
EvalRank ==
    /\ pc = "eval"
    /\ args # << >>
    /\ args' = rank_recommendations(args)
    /\ UNCHANGED <<pc, student, pr_df, gr_df, query, pr_req, gr_req, ret, prev, output,
                   analysis, plan_state>>

\* result.semester_plan = generate_semester_plan(result.credit_analysis, student)
EvalPlan ==
    /\ pc = "eval"
    /\ args # << >>
    /\ args' = [args EXCEPT ![Len(args)] = WithPlan(@, student)]
    /\ UNCHANGED <<pc, student, pr_df, gr_df, query, pr_req, gr_req, ret, prev, output,
                   analysis, plan_state>>

EvalNext == Evaluate \/ EvalRank \/ EvalPlan
SpecEval == EvalInit /\ [][EvalNext]_vars

C20_RankAndReasonEverywhere ==
    pc = "done" =>
        \A i \in 1..Len(output.simulation_results) :
            /\ output.simulation_results[i].graduation_status
                   \in {"Possible", "AtRisk", "Infeasible"}
            /\ output.simulation_results[i].recommendation_reason # << >>
            /\ output.simulation_results[i].recommendation_rank >= 1

\* C20, amended: every result carries a classification; on the
\* new-applicant path the result at position i has rank i and a non-empty
\* reason; on the existing-participant path the one result is not ranked:
\* its rank is 0 and its reason is empty
C20_RankAndReasonWhenRanked ==
    pc = "done" =>
        /\ \A i \in 1..Len(output.simulation_results) :
               /\ output.simulation_results[i].graduation_status
                      \in {"Possible", "AtRisk", "Infeasible"}
               /\ output.simulation_results[i].can_graduate \in BOOLEAN
        /\ student.student_type = "NewApplicant" =>
               /\ Len(output.simulation_results) = 3
               /\ output.recommended_programs = output.simulation_results
               /\ \A i \in 1..3 :
                      /\ output.simulation_results[i].recommendation_rank = i
                      /\ output.simulation_results[i].recommendation_reason # << >>
        /\ student.student_type = "CurrentParticipant" =>
               /\ Len(output.simulation_results) = 1
               /\ output.recommended_programs = << >>
               /\ output.simulation_results[1].recommendation_rank = 0
               /\ output.simulation_results[1].recommendation_reason = << >>

\* The result of an existing participant, classified and with a plan, but
\* without rank or reason
C20_Witness ==
    /\ pc = "done"
    /\ student.student_type = "CurrentParticipant"
    /\ Len(output.simulation_results) = 1
    /\ output.simulation_results[1].graduation_status = "AtRisk"
    /\ output.simulation_results[1].semester_plan # << >>
    /\ output.simulation_results[1].recommendation_rank = 0
    /\ output.simulation_results[1].recommendation_reason = << >>

(***************************************************************************)
(* Properties of the remaining semesters and of the deficit                *)
(***************************************************************************)
\* C21: remaining_semesters is max(0, total - completed_semesters) with
\* total 8 for a freshman and 4 for a 3rd-year transfer, and
\* max_additional_credits is remaining_semesters x 18
C21_RemainingSemesters ==
    (/\ pc = "called"
     /\ IsCall(args, "calculate_remaining_semesters")
     /\ args.admission_type \in {"Freshman", "TransferSame", "TransferDiff"})
    => /\ ret.remaining_semesters
              = IF (IF args.admission_type = "Freshman" THEN 8 ELSE 4)
                       - args.completed_semesters > 0
                THEN (IF args.admission_type = "Freshman" THEN 8 ELSE 4)
                         - args.completed_semesters
                ELSE 0
       /\ ret.max_additional_credits = ret.remaining_semesters * 18

\* A transfer student one semester in: 3 semesters and 54 credits left
C21_Witness ==
    /\ pc = "called"
    /\ IsCall(args, "calculate_remaining_semesters")
    /\ args.admission_type = "TransferDiff"
    /\ args.completed_semesters = 1
    /\ ret.remaining_semesters = 3
    /\ ret.max_additional_credits = 54

\* C22: calculate_deficit(completed, required) is max(0, required -
\* completed): 0 whenever completed >= required, and never negative
C22_Deficit ==
    (pc = "called" /\ IsCall(args, "calculate_deficit")) =>
        /\ ret >= 0
        /\ args.completed >= args.required => ret = 0
        /\ args.completed < args.required => ret = args.required - args.completed

\* More completed than a negative requirement: the deficit is 0
C22_Witness ==
    /\ pc = "called"
    /\ IsCall(args, "calculate_deficit")
    /\ args.required < 0
    /\ args.completed > 0
    /\ ret = 0

(***************************************************************************)
(* Properties of the finished plan                                         *)
(***************************************************************************)
RECURSIVE SumOf(_, _)
SumOf(p, cat) == IF p = << >> THEN 0 ELSE Head(p)[cat] + SumOf(Tail(p), cat)

\* The deficit the planner has to schedule
DeficitToSchedule(a) ==
    Max(a.deficit_major_required + a.deficit_major_elective + a.deficit_multi_required
        + a.deficit_multi_elective + a.deficit_basic_literacy + a.deficit_basic_science
        + a.deficit_core_liberal,
        a.deficit_graduation)

\* Every category's deficit is in the plan, and nothing is left over
AllScheduled ==
    /\ plan_state.total_remaining = 0
    /\ SumTotals(plan_state.plan) = DeficitToSchedule(analysis)
    /\ SumOf(plan_state.plan, "major_required") = analysis.deficit_major_required
    /\ SumOf(plan_state.plan, "major_elective") = analysis.deficit_major_elective
    /\ SumOf(plan_state.plan, "multi_required") = analysis.deficit_multi_required
    /\ SumOf(plan_state.plan, "multi_elective") = analysis.deficit_multi_elective
    /\ SumOf(plan_state.plan, "basic_literacy") = analysis.deficit_basic_literacy
    /\ SumOf(plan_state.plan, "basic_science") = analysis.deficit_basic_science
    /\ SumOf(plan_state.plan, "core_liberal") = analysis.deficit_core_liberal

\* C23: a deficit of at most 18 x remaining_semesters is scheduled whole
\* (requirement rows with negative credits left aside)
C23_AllScheduled ==
    (/\ pc = "plan_done"
     /\ analysis.deficit_multi_required >= 0
     /\ DeficitToSchedule(analysis) <= 18 * analysis.remaining_semesters)
    => AllScheduled

\* What the plan does hold in that case (checked under SpecPlan): when the
\* deficit to schedule is at most 18 x remaining_semesters and no deficit
\* is negative, the finished plan holds
\* the whole deficit of every category but major-required and
\* multi-required; these two get at most 6 credits a semester and may be
\* left short, and remaining_total after the last semester is what they are
\* short of
UnscheduledIsCappedRequired ==
    (/\ pc = "plan_done"
     /\ analysis.deficit_multi_required >= 0
     /\ DeficitToSchedule(analysis) <= 18 * analysis.remaining_semesters)
    => /\ SumOf(plan_state.plan, "major_elective") = analysis.deficit_major_elective
       /\ SumOf(plan_state.plan, "multi_elective") = analysis.deficit_multi_elective
       /\ SumOf(plan_state.plan, "basic_literacy") = analysis.deficit_basic_literacy
       /\ SumOf(plan_state.plan, "basic_science") = analysis.deficit_basic_science
       /\ SumOf(plan_state.plan, "core_liberal") = analysis.deficit_core_liberal
       /\ SumOf(plan_state.plan, "free")
              = DeficitToSchedule(analysis)
                - (analysis.deficit_major_required + analysis.deficit_major_elective
                   + analysis.deficit_multi_required + analysis.deficit_multi_elective
                   + analysis.deficit_basic_literacy + analysis.deficit_basic_science
                   + analysis.deficit_core_liberal)
       /\ SumOf(plan_state.plan, "major_required") <= analysis.deficit_major_required
       /\ SumOf(plan_state.plan, "multi_required") <= analysis.deficit_multi_required
       /\ plan_state.total_remaining
              = (analysis.deficit_major_required - SumOf(plan_state.plan, "major_required"))
                + (analysis.deficit_multi_required - SumOf(plan_state.plan, "multi_required"))

\* Two semesters for 15 multi-required and 21 multi-elective credits: the
\* plan holds 12 of the 15, and 3 stay in remaining_total
ShortOfThreeRequired ==
    /\ pc = "plan_done"
    /\ analysis.remaining_semesters = 2
    /\ analysis.deficit_multi_required = 15
    /\ DeficitToSchedule(analysis) = 36
    /\ SumOf(plan_state.plan, "multi_required") = 12
    /\ SumOf(plan_state.plan, "multi_elective") = 21
    /\ plan_state.total_remaining = 3

(***************************************************************************)
(* Properties of the planner's iterations                                  *)
(***************************************************************************)
GeneralEducationFirst ==
    <<"basic_literacy", "basic_science", "core_liberal", "major_required",
      "multi_required", "major_elective", "multi_elective", "free">>

MajorFirst ==
    <<"major_required", "multi_required", "major_elective", "multi_elective",
      "basic_literacy", "basic_science", "core_liberal", "free">>

\* The grade of the semester planned last, from the student's record
GradeOfLast ==
    LET absolute_semester == student.completed_semesters + plan_state.sem_idx
    IN IF student.admission_type = "Freshman"
       THEN (absolute_semester \div 2) + (absolute_semester % 2)
       ELSE 3 + ((absolute_semester - 1) \div 2)

\* The categories of order got their credits in that order: one that got
\* credits has nothing but exhausted categories, and required categories
\* that got 6 credits, before it
ServedInOrder(order, sem, remaining) ==
    \A j \in 1..Len(order) :
        sem[order[j]] > 0 =>
            \A i \in 1..(j - 1) :
                \/ remaining[order[i]] <= 0
                \/ /\ order[i] \in {"major_required", "multi_required"}
                   /\ sem[order[i]] = 6

\* C24: the semester planned last carries the grade of its absolute
\* semester, and its credits were given in the order of that grade:
\* general education first in grade 1 or 4, the major first in grade 2 or 3
C24_FillOrder ==
    (pc \in {"plan_loop", "plan_done"} /\ plan_state.sem_idx >= 1) =>
        /\ plan_state.sem_plan.semester[1] = GradeOfLast
        /\ GradeOfLast \in 1..4
        /\ GradeOfLast \in {1, 4} =>
               ServedInOrder(GeneralEducationFirst, plan_state.sem_plan,
                             plan_state.remaining)
        /\ GradeOfLast \in {2, 3} =>
               ServedInOrder(MajorFirst, plan_state.sem_plan, plan_state.remaining)

\* A grade-4 semester that gave credits to general education, then 6 to a
\* required category that is not exhausted by them, then to an elective
C24_Witness ==
    /\ pc = "plan_loop"
    /\ plan_state.sem_idx >= 1
    /\ GradeOfLast = 4
    /\ GeneralEducationPlanned(plan_state.sem_plan) > 0
    /\ plan_state.sem_plan.multi_required = 6
    /\ plan_state.remaining.multi_required > 0
    /\ plan_state.sem_plan.multi_elective > 0

(***************************************************************************)
(* Properties of the classification against the planner's deficit          *)
(***************************************************************************)
\* The sum simulate_program classifies: the two primary-major deficits and
\* the multi-major requirements, which it takes whole as deficits
ClassifiedDeficit(a) ==
    a.deficit_major_required + a.deficit_major_elective
    + a.req_multi_required + a.req_multi_elective

\* C25 as stated: a result with can_graduate = True has a deficit to
\* schedule, max(four category deficits + three general-education
\* deficits, graduation deficit), of at most max_additional_credits
C25_PlannerDeficitFits ==
    pc = "done" =>
        \A i \in 1..Len(output.simulation_results) :
            output.simulation_results[i].can_graduate =>
                DeficitToSchedule(output.simulation_results[i].credit_analysis)
                    <= output.simulation_results[i].credit_analysis.max_additional_credits

\* C25, amended: a result has can_graduate = True exactly when the sum of
\* the four category deficits simulate_program computed is at most
\* max_additional_credits; the general-education deficits and the
\* graduation deficit have no part in it
C25_FourDeficitsFit ==
    pc = "done" =>
        \A i \in 1..Len(output.simulation_results) :
            output.simulation_results[i].can_graduate
                <=> ClassifiedDeficit(output.simulation_results[i].credit_analysis)
                        <= output.simulation_results[i].credit_analysis.max_additional_credits

\* A new applicant's result with can_graduate = True whose four deficits
\* fill the capacity and whose deficit to schedule is above it, next to a
\* result with can_graduate = False
C25_Witness ==
    /\ pc = "done"
    /\ student.student_type = "NewApplicant"
    /\ \E i \in 1..Len(output.simulation_results) :
          /\ output.simulation_results[i].can_graduate
          /\ FourDeficits(output.simulation_results[i].credit_analysis)
                 = output.simulation_results[i].credit_analysis.max_additional_credits
          /\ output.simulation_results[i].credit_analysis.deficit_graduation
                 > output.simulation_results[i].credit_analysis.max_additional_credits
    /\ \E j \in 1..Len(output.simulation_results) :
          ~output.simulation_results[j].can_graduate

(***************************************************************************)
(* Properties of the per-semester credit target                            *)
(***************************************************************************)
\* remaining_total as it was when the semester planned last began
RemainingBeforeLast == plan_state.total_remaining + plan_state.sem_plan.total

\* The number of semesters still to plan when the semester planned last began
SemestersToPlan == analysis.remaining_semesters - plan_state.sem_idx + 1

CeilingOf(n, d) == (n \div d) + (IF n % d = 0 THEN 0 ELSE 1)

\* C26: the semesters are planned in chronological order (the one planned
\* last is absolute semester completed_semesters + sem_idx), its credit
\* target is min(18, ceil(remaining_total / semesters still to plan),
\* remaining_total), and the semester's total is at most that target
C26_CreditTarget ==
    (pc \in {"plan_loop", "plan_done"} /\ plan_state.sem_idx >= 1) =>
        /\ plan_state.sem_idx <= analysis.remaining_semesters
        /\ plan_state.sem_plan.semester
               = <<GradeOfLast,
                   IF (student.completed_semesters + plan_state.sem_idx) % 2 = 1
                   THEN 1 ELSE 2>>
        /\ plan_state.credits_this_semester
               = Min(Min(18, CeilingOf(RemainingBeforeLast, SemestersToPlan)),
                     RemainingBeforeLast)
        /\ plan_state.sem_plan.total <= plan_state.credits_this_semester

\* A semester whose target is the even share, below 18, and whose total
\* falls short of the target
C26_Witness ==
    /\ pc = "plan_loop"
    /\ plan_state.sem_idx >= 1
    /\ plan_state.credits_this_semester
           = CeilingOf(RemainingBeforeLast, SemestersToPlan)
    /\ plan_state.credits_this_semester < 18
    /\ plan_state.sem_plan.total > 0
    /\ plan_state.sem_plan.total < plan_state.credits_this_semester

(***************************************************************************)
(* Properties of the required categories' limit                            *)
(***************************************************************************)
\* C27: no semester of a plan, in progress or finished, gives more than 6
\* credits to major-required or more than 6 to multi-required, whichever
\* fill order its grade selects
C27_RequiredAtMostSix ==
    pc \in {"plan_loop", "plan_done"} =>
        /\ \A i \in 1..Len(plan_state.plan) :
              /\ plan_state.plan[i].major_required <= 6
              /\ plan_state.plan[i].multi_required <= 6
        /\ plan_state.sem_plan.major_required <= 6
        /\ plan_state.sem_plan.multi_required <= 6

\* A finished plan with a major-first semester and a later
\* general-education-first semester that both stopped at 6 major-required
\* credits and went on to the electives, more being planned after each
C27_Witness ==
    /\ pc = "plan_done"
    /\ \E i \in 1..Len(plan_state.plan) : \E j \in 1..Len(plan_state.plan) :
          /\ i < j /\ j < Len(plan_state.plan)
          /\ plan_state.plan[i].semester[1] \in {2, 3}
          /\ plan_state.plan[i].major_required = 6
          /\ plan_state.plan[j].semester[1] = 4
          /\ plan_state.plan[j].major_required = 6
          /\ plan_state.plan[i].major_elective + plan_state.plan[i].multi_elective > 0
          /\ plan_state.plan[j].major_elective + plan_state.plan[j].multi_elective > 0
          /\ plan_state.plan[j + 1].major_required > 0

(***************************************************************************)
(* Properties of the multi-major defaults                                  *)
(***************************************************************************)
\* No row of the sheet matches the target major in any of the three passes
Unmatched(multi_major, program_type, admission_year, df) ==
    df # << >> /\ MultiMatch(multi_major, program_type, admission_year, df) = << >>

\* C28: a result for a target major that no row of a non-empty sheet
\* matches has the multi-major required/elective credits that
\* simulate_program gives the same student and program type on an empty
\* sheet
C28_SameDefaults ==
    pc = "done" =>
        \A i \in 1..Len(output.simulation_results) :
            Unmatched(output.simulation_results[i].multi_major_name,
                      output.simulation_results[i].program_type,
                      student.admission_year, gr_df)
            => /\ output.simulation_results[i].credit_analysis.req_multi_required
                  = simulate_program(student, output.simulation_results[i].program_type,
                                     output.simulation_results[i].multi_major_name,
                                     pr_df, << >>).credit_analysis.req_multi_required
               /\ output.simulation_results[i].credit_analysis.req_multi_elective
                  = simulate_program(student, output.simulation_results[i].program_type,
                                     output.simulation_results[i].multi_major_name,
                                     pr_df, << >>).credit_analysis.req_multi_elective

(***************************************************************************)
(* Properties of the graduation-credit target                              *)
(***************************************************************************)
\* C29: req_graduation_credits of a result is what simulate_program gives
\* without any primary record (an empty primary sheet): 120 for every
\* program type but the double major, 120..130 for a double major, and
\* 120..164 for a double major in the five-year architecture programme
C29_GraduationTarget ==
    pc = "done" =>
        \A i \in 1..Len(output.simulation_results) :
            /\ output.simulation_results[i].credit_analysis.req_graduation_credits
               = simulate_program(student, output.simulation_results[i].program_type,
                                  output.simulation_results[i].multi_major_name,
                                  << >>, gr_df).credit_analysis.req_graduation_credits
            /\ output.simulation_results[i].program_type # "DoubleMajor"
               => output.simulation_results[i].credit_analysis.req_graduation_credits = 120
            /\ (/\ output.simulation_results[i].program_type = "DoubleMajor"
                /\ output.simulation_results[i].multi_major_name # Arch5Major)
               => output.simulation_results[i].credit_analysis.req_graduation_credits
                      \in 120..130
            /\ (/\ output.simulation_results[i].program_type = "DoubleMajor"
                /\ output.simulation_results[i].multi_major_name = Arch5Major)
               => output.simulation_results[i].credit_analysis.req_graduation_credits
                      \in 120..164

\* The primary record asks for 140 graduation credits; the double-major
\* result for the five-year architecture programme has the target 164 and
\* the minor result next to it 120
C29_Witness ==
    /\ pc = "done"
    /\ output.current_analysis.req_graduation_credits = 140
    /\ \E i \in 1..Len(output.simulation_results) :
          /\ output.simulation_results[i].program_type = "DoubleMajor"
          /\ output.simulation_results[i].multi_major_name = Arch5Major
          /\ output.simulation_results[i].credit_analysis.req_graduation_credits = 164
    /\ \E j \in 1..Len(output.simulation_results) :
          /\ output.simulation_results[j].program_type = "Minor"
          /\ output.simulation_results[j].credit_analysis.req_graduation_credits = 120

(***************************************************************************)
(* Properties of the planner's per-category remainders                     *)
(***************************************************************************)
RemainingSum(remaining) ==
    remaining.basic_literacy + remaining.basic_science + remaining.core_liberal
    + remaining.major_required + remaining.major_elective
    + remaining.multi_required + remaining.multi_elective + remaining.free

\* C30: with no deficit negative, before the first iteration and after
\* every iteration remaining_total is the sum of the eight categories'
\* remaining amounts, and none of these is negative
C30_RemainingTotalIsSum ==
    (pc \in {"plan_loop", "plan_done"} /\ NonNegativeAnalysis(analysis)) =>
        /\ plan_state.total_remaining = RemainingSum(plan_state.remaining)
        /\ \A c \in Categories : plan_state.remaining[c] >= 0

\* Between two iterations: free credits and multi-required credits are
\* both still to plan, after a semester that took from several categories
C30_Witness ==
    /\ pc = "plan_loop"
    /\ NonNegativeAnalysis(analysis)
    /\ plan_state.sem_idx >= 1
    /\ plan_state.sem_idx < analysis.remaining_semesters
    /\ plan_state.remaining.free > 0
    /\ plan_state.remaining.multi_required > 0
    /\ plan_state.sem_plan.multi_required > 0
    /\ plan_state.sem_plan.multi_elective > 0
    /\ plan_state.total_remaining = RemainingSum(plan_state.remaining)
====
